---- MODULE Spec2Model ----
(***************************************************************************)
(* A model of the ast_compress structural AST compressor: the lifted tree  *)
(* model, the template matcher (ComputeTemplate / Template), the depth     *)
(* cache (DepthCache), the tree walker (prePostWalk) and the compression   *)
(* visitor (makeCompressVisitor).                                          *)
(***************************************************************************)
EXTENDS Integers, Sequences, FiniteSets, TLC

VARIABLES
    orig_node,      \* ComputeTemplate.orig_node of the template run at hand
    query_node,     \* ComputeTemplate.query_node of the template run at hand
    tmpl_result,    \* what ComputeTemplate.compute() gave for them
    depth_caches,   \* DepthCache.depth_caches
    push_count,     \* number of cachePush calls made so far, per buffer
    search_depth,   \* the depth argument of the last DepthCache.search
    search_query,   \* the tree argument of the last DepthCache.search
    search_result,  \* what the last DepthCache.search returned
    doc,            \* the lifted tree handed to prePostWalk
    stack,          \* the activation records of prePostWalkHelper
    walk_state,     \* the walker-local counter attrs._state.number
    walk_status,    \* "idle", "running", "done" or "aborted"
    events,         \* the callback events delivered so far
    pruned,         \* some callback has returned false
    template_map,   \* makeCompressVisitor's template_map
    cache_log,      \* the pushTree / pushTemplate calls made by the visitor
    match_query,    \* the query_tree of the last Template.matchesTree
    match_result,   \* what the last Template.matchesTree returned
    attrs,          \* attrs.number and attrs.depth of the nodes of doc, by node
    use_counts,     \* StringTable.use_counts, a Map in insertion order
    sorted_arr,     \* StringTable.sorted_arr
    idx_map,        \* StringTable.idx_map
    table_calls,    \* the addString / finish calls made on the table so far
    lookup_result,  \* the argument and outcome of the last StringTable.lookup
    string_table,   \* Encoder.string_table
    bytes,          \* Encoder.bytes
    enc_call,       \* the last Encoder call: operation, arguments, outcome
    raw_obj,        \* the raw node object handed to the lifter
    lift_mode,      \* "none", "must" (mustLiftObj) or "sloppy" (sloppyLiftObj)
    lift_result     \* what the lift returned, or that it threw

tmplVars  == <<orig_node, query_node, tmpl_result, match_query, match_result>>
cacheVars == <<depth_caches, push_count, search_depth, search_query, search_result>>
walkVars  == <<doc, stack, walk_state, walk_status, events, pruned>>
visitVars == <<template_map, cache_log>>
numVars   == <<attrs>>
tableVars == <<use_counts, sorted_arr, idx_map, table_calls, lookup_result>>
encVars   == <<string_table, bytes, enc_call>>
liftVars  == <<raw_obj, lift_mode, lift_result>>
vars == <<orig_node, query_node, tmpl_result,
          depth_caches, push_count, search_depth, search_query, search_result,
          doc, stack, walk_state, walk_status, events, pruned,
          template_map, cache_log, match_query, match_result,
          attrs, use_counts, sorted_arr, idx_map, table_calls, lookup_result,
          string_table, bytes, enc_call, raw_obj, lift_mode, lift_result>>

(***************************************************************************)
(* Small helpers on sequences and integers.                                *)
(***************************************************************************)
Min(a, b) == IF a <= b THEN a ELSE b

Range(s) == {s[i] : i \in DOMAIN s}

RECURSIVE Flatten(_)
Flatten(ss) == IF ss = <<>> THEN <<>> ELSE Head(ss) \o Flatten(Tail(ss))

(***************************************************************************)
(* Lifted nodes.  A node is its type name, its lifted_fields map and its   *)
(* lifted_children map, both kept in insertion order, which is the order   *)
(* of the descriptors of the type.  A child entry is a single node, null   *)
(* or an array of nodes.                                                   *)
(***************************************************************************)
Field(name, value) == [name |-> name, value |-> value]

Branch(name, kind, elems) == [name |-> name, kind |-> kind, elems |-> elems]

BaseNode(type, fields, children) ==
    [type |-> type, fields |-> fields, children |-> children]

NoTree == BaseNode("", <<>>, <<>>)

\* The node types of the registry that the bounded trees are built from.
Identifier(v) == BaseNode("Identifier", <<Field("name", v)>>, <<>>)

ReturnAbsent == BaseNode("ReturnStatement", <<>>, <<>>)

ReturnNull == BaseNode("ReturnStatement", <<>>, <<Branch("argument", "null", <<>>)>>)

ReturnStatement(x) ==
    BaseNode("ReturnStatement", <<>>, <<Branch("argument", "node", <<x>>)>>)

ExpressionStatement(x) ==
    BaseNode("ExpressionStatement", <<>>, <<Branch("expression", "node", <<x>>)>>)

Directive(d, x) ==
    BaseNode("ExpressionStatement", <<Field("directive", d)>>,
             <<Branch("expression", "node", <<x>>)>>)

UnaryExpression(operator, prefix, x) ==
    BaseNode("UnaryExpression", <<Field("operator", operator), Field("prefix", prefix)>>,
             <<Branch("argument", "node", <<x>>)>>)

CallExpression(c, args) ==
    BaseNode("CallExpression", <<>>,
             <<Branch("callee", "node", <<c>>), Branch("arguments", "array", args)>>)

Program(body) ==
    BaseNode("Program", <<Field("sourceType", "script")>>,
             <<Branch("body", "array", body)>>)

(***************************************************************************)
(* A reference to a node object: the identity of the object (the root it   *)
(* hangs from, then the branch and element index of every edge down to     *)
(* it), and the node itself.  Two references are the same object iff their *)
(* ids are equal.                                                          *)
(***************************************************************************)
Ref(id, t) == [id |-> id, t |-> t, isnull |-> FALSE]

NullRef == [id |-> <<>>, t |-> NoTree, isnull |-> TRUE]

ChildRef(h, bi, ei) == Ref(h.id \o <<bi, ei>>, h.t.children[bi].elems[ei])

\* attrs.depth as depthFirstNumber sets it: the length of the parent chain.
DepthOf(h) == (Len(h.id) - 1) \div 2

IsPrefix(s, t) == Len(s) <= Len(t) /\ SubSeq(t, 1, Len(s)) = s

\* a is b or an ancestor of b
AncestorOrSelf(a, b) == IsPrefix(a.id, b.id)

\* The child objects of a node, in the order forEachChild meets them.
ChildRefs(h) ==
    Flatten([bi \in DOMAIN h.t.children |->
                [ei \in DOMAIN h.t.children[bi].elems |-> ChildRef(h, bi, ei)]])

\* The node objects of a tree in pre-order.
RECURSIVE PreOrder(_)
PreOrder(h) ==
    <<h>> \o Flatten([i \in DOMAIN ChildRefs(h) |-> PreOrder(ChildRefs(h)[i])])

RECURSIVE SubtreeRefs(_)
SubtreeRefs(h) == {h} \cup UNION { SubtreeRefs(c) : c \in Range(ChildRefs(h)) }

(***************************************************************************)
(* The template matcher.                                                   *)
(***************************************************************************)
\* The names of the fields and branches of the node types above, in the
\* order Array.prototype.sort puts them (by UTF-16 code unit).
NameOrder ==
    <<"argument", "arguments", "body", "callee", "directive", "expression",
      "name", "operator", "prefix", "sourceType">>

NameRank(n) == CHOOSE i \in DOMAIN NameOrder : NameOrder[i] = n

RECURSIVE InsertName(_, _)
InsertName(n, s) ==
    IF s = <<>> THEN <<n>>
    ELSE IF NameRank(n) < NameRank(Head(s)) THEN <<n>> \o s
    ELSE <<Head(s)>> \o InsertName(n, Tail(s))

RECURSIVE SortNames(_)
SortNames(s) == IF s = <<>> THEN <<>> ELSE InsertName(Head(s), SortNames(Tail(s)))

arraysEqualSimple(a, b) == a = b

\* fieldMap() / childMap(): the names, and the entry of a name.
FieldKeys(h) == [i \in DOMAIN h.t.fields |-> h.t.fields[i].name]

ChildKeys(h) == [i \in DOMAIN h.t.children |-> h.t.children[i].name]

FieldGet(h, name) ==
    h.t.fields[CHOOSE i \in DOMAIN h.t.fields : h.t.fields[i].name = name]

ChildIndex(h, name) ==
    CHOOSE i \in DOMAIN h.t.children : h.t.children[i].name = name

\* sameValue comparing the two Field objects by reference.
sameValue_byReference(a, b) == FALSE

\* sameValue on two Field objects: both are objects that are not arrays and
\* not null, so their own properties (field_info, value) are compared; the
\* field values of the bounded trees are primitives, compared with ===.
sameValue(a, b) == a.name = b.name /\ a.value = b.value

\* The substitution of a cut: exactly one of value, value_map, node and
\* node_array.  A node substitution with no node is {node: null}.
NoField == Field("", "")

SubstValue(f) == [kind |-> "value", value |-> f, value_map |-> <<>>, nodes |-> <<>>]

SubstValueMap(fs) ==
    [kind |-> "value_map", value |-> NoField, value_map |-> fs, nodes |-> <<>>]

SubstNode(h) ==
    [kind |-> "node", value |-> NoField, value_map |-> <<>>,
     nodes |-> IF h.isnull THEN <<>> ELSE <<h>>]

SubstNodeArray(hs) ==
    [kind |-> "node_array", value |-> NoField, value_map |-> <<>>, nodes |-> hs]

Reason(tag, i, name) == [tag |-> tag, i |-> i, name |-> name]

\* The state of a ComputeTemplate object after its constructor.
NewComputeTemplate(o, q) ==
    [orig_node |-> o, query_node |-> q, number |-> 0, child_queue |-> <<>>,
     step_count |-> 0, cut_count |-> 0, cuts |-> <<>>]

step_(ct) == [ct EXCEPT !.number = @ + 1, !.step_count = @ + 1]

\* cut_ taking the number of the cut after step_ has advanced it.
cut_numberAfterStep(ct, reason, subst) ==
    [ct EXCEPT !.number = @ + 1, !.cut_count = @ + 1,
               !.cuts = Append(@, [num |-> ct.number + 1, reason |-> reason,
                                   subst |-> subst])]

cut_(ct, reason, subst) ==
    [ct EXCEPT !.number = @ + 1, !.cut_count = @ + 1,
               !.cuts = Append(@, [num |-> ct.number, reason |-> reason,
                                   subst |-> subst])]

addChild_(ct, o, q) == [ct EXCEPT !.child_queue = Append(@, <<o, q>>)]

\* The loop over the sorted field names: a cut for every pair of values
\* that are not the same; the return in the callback ends one iteration.
\* The loop over the field names ending at its first cut.
RECURSIVE MatchFields_stopsAtFirstCut(_, _, _, _, _)
MatchFields_stopsAtFirstCut(ct, keys, i, o, q) ==
    IF i > Len(keys) THEN ct
    ELSE IF ~sameValue(FieldGet(o, keys[i]), FieldGet(q, keys[i]))
    THEN cut_(ct, Reason("value", i - 1, keys[i]), SubstValue(FieldGet(q, keys[i])))
    ELSE MatchFields_stopsAtFirstCut(ct, keys, i + 1, o, q)

RECURSIVE MatchFields(_, _, _, _, _)
MatchFields(ct, keys, i, o, q) ==
    IF i > Len(keys) THEN ct
    ELSE LET orig_value  == FieldGet(o, keys[i])
             query_value == FieldGet(q, keys[i])
             next == IF ~sameValue(orig_value, query_value)
                     THEN cut_(ct, Reason("value", i - 1, keys[i]),
                               SubstValue(query_value))
                     ELSE ct
         IN MatchFields(next, keys, i + 1, o, q)

RECURSIVE AddChildren(_, _, _, _, _)
AddChildren(ct, o, q, bo, i) ==
    IF i > Len(o.t.children[bo].elems) THEN ct
    ELSE AddChildren(addChild_(ct, ChildRef(o, bo, i),
                               ChildRef(q, ChildIndex(q, o.t.children[bo].name), i)),
                     o, q, bo, i + 1)

\* The iteration with the array-length cut substituting the query node
\* that holds the array.
MatchChild_cutsParent(ct, o, q, child_name) ==
    LET bo == ChildIndex(o, child_name)
        bq == ChildIndex(q, child_name)
        orig_child  == o.t.children[bo]
        query_child == q.t.children[bq]
        query_refs  == [i \in DOMAIN query_child.elems |-> ChildRef(q, bq, i)]
    IN IF orig_child.kind = "array"
       THEN IF Len(orig_child.elems) = Len(query_child.elems)
            THEN AddChildren(step_(ct), o, q, bo, 1)
            ELSE cut_(ct, Reason("child_array_length", 0, ""), SubstNodeArray(<<q>>))
       ELSE IF orig_child.kind = "null"
       THEN IF query_child.kind = "null"
            THEN step_(ct)
            ELSE cut_(ct, Reason("notnull_query_child", 0, ""),
                      SubstNode(query_refs[1]))
       ELSE IF query_child.kind = "null"
            THEN cut_(ct, Reason("null_query_child", 0, ""), SubstNode(NullRef))
            ELSE addChild_(step_(ct), ChildRef(o, bo, 1), query_refs[1])

\* One iteration of the loop over the sorted child names.
MatchChild(ct, o, q, child_name) ==
    LET bo == ChildIndex(o, child_name)
        bq == ChildIndex(q, child_name)
        orig_child  == o.t.children[bo]
        query_child == q.t.children[bq]
        query_refs  == [i \in DOMAIN query_child.elems |-> ChildRef(q, bq, i)]
    IN IF orig_child.kind = "array"
       THEN IF Len(orig_child.elems) = Len(query_child.elems)
            THEN AddChildren(step_(ct), o, q, bo, 1)
            ELSE cut_(ct, Reason("child_array_length", 0, ""),
                      SubstNodeArray(query_refs))
       ELSE IF orig_child.kind = "null"
       THEN IF query_child.kind = "null"
            THEN step_(ct)
            ELSE cut_(ct, Reason("notnull_query_child", 0, ""),
                      SubstNode(query_refs[1]))
       ELSE IF query_child.kind = "null"
            THEN cut_(ct, Reason("null_query_child", 0, ""), SubstNode(NullRef))
            ELSE addChild_(step_(ct), ChildRef(o, bo, 1), query_refs[1])

RECURSIVE MatchChildren(_, _, _, _, _)
MatchChildren(ct, keys, i, o, q) ==
    IF i > Len(keys) THEN ct
    ELSE MatchChildren(MatchChild(ct, o, q, keys[i]), keys, i + 1, o, q)

matchNodes_(ct, o, q) ==
    IF o.t.type # q.t.type
    THEN cut_(ct, Reason("node_type", 0, ""), SubstNode(q))
    ELSE LET c1 == step_(ct)
             orig_field_keys  == SortNames(FieldKeys(o))
             query_field_keys == SortNames(FieldKeys(q))
         IN IF ~arraysEqualSimple(orig_field_keys, query_field_keys)
            THEN cut_(c1, Reason("field_names", 0, ""), SubstValueMap(q.t.fields))
            ELSE LET c2 == MatchFields(c1, orig_field_keys, 1, o, q)
                     orig_child_keys  == SortNames(ChildKeys(o))
                     query_child_keys == SortNames(ChildKeys(q))
                 IN IF ~arraysEqualSimple(orig_child_keys, query_child_keys)
                    THEN cut_(c2, Reason("child_names", 0, ""), SubstNode(q))
                    ELSE MatchChildren(step_(c2), orig_child_keys, 1, o, q)

RECURSIVE ComputeLoop(_)
ComputeLoop(ct) ==
    IF ct.child_queue = <<>> THEN ct
    ELSE LET pair == Head(ct.child_queue)
         IN ComputeLoop(matchNodes_([ct EXCEPT !.child_queue = Tail(@)],
                                    pair[1], pair[2]))

\* The pairs that compute() takes off child_queue, one per matchNodes_ call.
RECURSIVE ComparedPairs(_)
ComparedPairs(ct) ==
    IF ct.child_queue = <<>> THEN {}
    ELSE LET pair == Head(ct.child_queue)
         IN {pair} \cup ComparedPairs(matchNodes_([ct EXCEPT !.child_queue = Tail(@)],
                                                   pair[1], pair[2]))

\* new Template({tree, step_count, cut_count, cuts})
Template(tree, step_count, cut_count, cuts) ==
    [status |-> "ok", tree |-> tree, step_count |-> step_count,
     cut_count |-> cut_count, benefit |-> step_count - 1, cuts |-> cuts]

\* The outcome of a failed assert(): no template.
Aborted == [status |-> "abort", tree |-> NullRef, step_count |-> 0,
            cut_count |-> 0, benefit |-> 0, cuts |-> <<>>]

\* No template: the value of a property that was never set.
NoResult == [Aborted EXCEPT !.status = "none"]

\* new ComputeTemplate(orig_node, query_node).compute(); the constructor
\* asserts that the two are not one object.
ComputeTemplate(o, q) ==
    IF o.id = q.id THEN Aborted
    ELSE LET Result(ct) == Template(ct.orig_node, ct.step_count, ct.cut_count, ct.cuts)
         IN Result(ComputeLoop(addChild_(NewComputeTemplate(o, q), o, q)))

\* Template.matchesTree: the cuts of the query against the template's tree,
\* or false.
NoMatch == [status |-> "false", cuts |-> <<>>]

\* matchesTree comparing the cut count with the template's step count.
matchesTree_wrongCount(tmpl, query_tree) ==
    LET Compare(r) ==
            IF r.status = "abort" THEN [status |-> "abort", cuts |-> <<>>]
            ELSE IF r.step_count # tmpl.step_count THEN NoMatch
            ELSE IF r.cut_count # tmpl.step_count THEN NoMatch
            ELSE IF Len(r.cuts) # Len(tmpl.cuts) THEN NoMatch
            ELSE IF \E i \in DOMAIN r.cuts : tmpl.cuts[i].num # r.cuts[i].num
                 THEN NoMatch
            ELSE [status |-> "cuts", cuts |-> r.cuts]
    IN Compare(ComputeTemplate(tmpl.tree, query_tree))

\* matchesTree without the comparison of the cut counts.
matchesTree_ignoresCutCount(tmpl, query_tree) ==
    LET Compare(r) ==
            IF r.status = "abort" THEN [status |-> "abort", cuts |-> <<>>]
            ELSE IF r.step_count # tmpl.step_count THEN NoMatch
            ELSE IF \E i \in DOMAIN r.cuts :
                       i \in DOMAIN tmpl.cuts /\ tmpl.cuts[i].num # r.cuts[i].num
                 THEN NoMatch
            ELSE [status |-> "cuts", cuts |-> r.cuts]
    IN Compare(ComputeTemplate(tmpl.tree, query_tree))

matchesTree(tmpl, query_tree) ==
    LET Compare(r) ==
            IF r.status = "abort" THEN [status |-> "abort", cuts |-> <<>>]
            ELSE IF r.step_count # tmpl.step_count THEN NoMatch
            ELSE IF r.cut_count # tmpl.cut_count THEN NoMatch
            ELSE IF Len(r.cuts) # Len(tmpl.cuts) THEN NoMatch
            ELSE IF \E i \in DOMAIN r.cuts : tmpl.cuts[i].num # r.cuts[i].num
                 THEN NoMatch
            ELSE [status |-> "cuts", cuts |-> r.cuts]
    IN Compare(ComputeTemplate(tmpl.tree, query_tree))

(***************************************************************************)
(* The depth cache.                                                        *)
(***************************************************************************)
width == 64

depth_range == 2

NoEntry == [trees |-> <<>>, templates |-> <<>>]

\* getEntry_: entries are made for every depth up to the one asked for.
getEntry_(dc, depth) ==
    IF Len(dc) > depth THEN dc
    ELSE dc \o [i \in 1..(depth + 1 - Len(dc)) |-> NoEntry]

\* cachePush: push, then shift while the length is not below the width.
\* A cachePush that never shifts.
ShiftWhileFull_neverShifts(cache) == cache

RECURSIVE ShiftWhileFull(_)
ShiftWhileFull(cache) ==
    IF Len(cache) >= width THEN ShiftWhileFull(Tail(cache)) ELSE cache

cachePush(cache, item) == ShiftWhileFull(Append(cache, item))

\* pushTree pushing the tree to the trees buffer of every depth up to the
\* one named.
pushTree_everyDepth(dc, depth, tree) ==
    [d \in DOMAIN getEntry_(dc, depth) |->
        [getEntry_(dc, depth)[d] EXCEPT !.trees = cachePush(@, tree)]]

pushTree(dc, depth, tree) ==
    [getEntry_(dc, depth) EXCEPT ![depth + 1].trees = cachePush(@, tree)]

pushTemplate(dc, depth, template) ==
    [getEntry_(dc, depth) EXCEPT ![depth + 1].templates = cachePush(@, template)]

\* What search returns: {} or a match record; a failed assertion inside a
\* sub-search aborts the call.
NothingFound ==
    [found |-> FALSE, aborted |-> FALSE, kind |-> "none", depth_delta |-> 0,
     rev_i |-> 0, benefit |-> 0, prior_tree |-> NullRef, prior_template |-> NoResult,
     step_count |-> 0, cut_count |-> 0, cuts |-> <<>>, template |-> NoResult]

SearchAborted == [NothingFound EXCEPT !.aborted = TRUE, !.kind = "abort"]

TemplateMatch(depth_delta, rev_i, prior_template, cuts) ==
    [found |-> TRUE, aborted |-> FALSE, kind |-> "template",
     depth_delta |-> depth_delta, rev_i |-> rev_i,
     benefit |-> prior_template.benefit, prior_tree |-> NullRef,
     prior_template |-> prior_template, step_count |-> 0, cut_count |-> 0,
     cuts |-> cuts, template |-> NoResult]

TreeMatch(depth_delta, rev_i, prior_tree, template) ==
    [found |-> TRUE, aborted |-> FALSE, kind |-> "tree",
     depth_delta |-> depth_delta, rev_i |-> rev_i,
     benefit |-> (template.step_count - template.cut_count) - 1,
     prior_tree |-> prior_tree, prior_template |-> NoResult,
     step_count |-> template.step_count, cut_count |-> template.cut_count,
     cuts |-> template.cuts, template |-> template]

IsFound(m) == m.found

\* templateSearchDepth_: the matches one depth adds, newest template first.
templateSearchDepth_(dc, cur_depth, tree, depth_delta) ==
    LET depth == cur_depth + depth_delta
    IN IF depth < 0 \/ depth >= Len(dc) THEN <<>>
       ELSE LET cache == dc[depth + 1].templates
                probe(rev_i) ==
                    LET prior_template == cache[Len(cache) - rev_i]
                        Hit(cuts) ==
                            IF cuts.status = "cuts"
                            THEN TemplateMatch(depth_delta, rev_i, prior_template,
                                               cuts.cuts)
                            ELSE NothingFound
                    IN Hit(matchesTree(prior_template, tree))
            IN SelectSeq([r \in 1..Len(cache) |-> probe(r - 1)], IsFound)

\* treeSearchDepth_ walking the buffer from its oldest tree.
treeSearchDepth__oldestFirst(dc, cur_depth, tree, depth_delta) ==
    LET depth == cur_depth + depth_delta
    IN IF depth < 0 \/ depth >= Len(dc) THEN <<>>
       ELSE LET cache == dc[depth + 1].trees
                probe(rev_i) ==
                    LET prior_tree == cache[rev_i + 1]
                    IN IF tree.t.type = prior_tree.t.type
                       THEN TreeMatch(depth_delta, rev_i, prior_tree,
                                      ComputeTemplate(prior_tree, tree))
                       ELSE NothingFound
            IN SelectSeq([r \in 1..Len(cache) |-> probe(r - 1)], IsFound)

\* treeSearchDepth_: the matches one depth adds, newest tree first.
treeSearchDepth_(dc, cur_depth, tree, depth_delta) ==
    LET depth == cur_depth + depth_delta
    IN IF depth < 0 \/ depth >= Len(dc) THEN <<>>
       ELSE LET cache == dc[depth + 1].trees
                probe(rev_i) ==
                    LET prior_tree == cache[Len(cache) - rev_i]
                    IN IF tree.t.type = prior_tree.t.type
                       THEN TreeMatch(depth_delta, rev_i, prior_tree,
                                      ComputeTemplate(prior_tree, tree))
                       ELSE NothingFound
            IN SelectSeq([r \in 1..Len(cache) |-> probe(r - 1)], IsFound)

\* matches.sort((a, b) => (b.benefit - a.benefit)): descending benefit,
\* matches of equal benefit keeping their order.
RECURSIVE InsertMatch(_, _)
InsertMatch(m, s) ==
    IF s = <<>> THEN <<m>>
    ELSE IF m.benefit >= Head(s).benefit THEN <<m>> \o s
    ELSE <<Head(s)>> \o InsertMatch(m, Tail(s))

RECURSIVE SortMatches(_)
SortMatches(s) == IF s = <<>> THEN <<>> ELSE InsertMatch(Head(s), SortMatches(Tail(s)))

BestMatch(matches) ==
    LET sorted == SortMatches(matches)
    IN IF Len(sorted) > 0 /\ sorted[1].benefit > 0 THEN sorted[1] ELSE NothingFound

\* The depth deltas in the order templateSearch_ and treeSearch_ probe them.
TemplateDeltas ==
    <<0>> \o Flatten([i \in 1..depth_range |-> <<0 - i, i>>])

\* A treeSearch_ that leaves out the depth of the query.
TreeDeltas_skipsOwnDepth(depth) == IF depth - 1 >= 0 THEN <<-1, 1>> ELSE <<1>>

TreeDeltas(depth) == IF depth - 1 >= 0 THEN <<0, -1, 1>> ELSE <<0, 1>>

templateSearch_(dc, depth, tree) ==
    BestMatch(Flatten([k \in DOMAIN TemplateDeltas |->
                         templateSearchDepth_(dc, depth, tree, TemplateDeltas[k])]))

treeSearch_(dc, depth, tree) ==
    BestMatch(Flatten([k \in DOMAIN TreeDeltas(depth) |->
                         treeSearchDepth_(dc, depth, tree, TreeDeltas(depth)[k])]))

\* A ComputeTemplate is constructed for every template and for every tree of
\* the query's type at a probed depth; its assertion fails when the prior
\* tree is the query node itself.
SearchAsserts(dc, depth, tree) ==
    \/ \E k \in DOMAIN TemplateDeltas :
          LET d == depth + TemplateDeltas[k]
          IN /\ d >= 0 /\ d < Len(dc)
             /\ \E i \in DOMAIN dc[d + 1].templates :
                   dc[d + 1].templates[i].tree.id = tree.id
    \/ \E k \in DOMAIN TreeDeltas(depth) :
          LET d == depth + TreeDeltas(depth)[k]
          IN /\ d >= 0 /\ d < Len(dc)
             /\ \E i \in DOMAIN dc[d + 1].trees :
                   /\ dc[d + 1].trees[i].t.type = tree.t.type
                   /\ dc[d + 1].trees[i].id = tree.id

\* search with ties going to the tree match.
search_treeOnTie(dc, depth, tree) ==
    LET Better(template_result, tree_result) ==
            IF template_result.found /\ tree_result.found
            THEN IF template_result.benefit > tree_result.benefit
                 THEN template_result ELSE tree_result
            ELSE IF template_result.found THEN template_result
            ELSE IF tree_result.found THEN tree_result
            ELSE NothingFound
    IN IF SearchAsserts(dc, depth, tree) THEN SearchAborted
       ELSE Better(templateSearch_(dc, depth, tree), treeSearch_(dc, depth, tree))

search(dc, depth, tree) ==
    LET Better(template_result, tree_result) ==
            IF template_result.found /\ tree_result.found
            THEN IF template_result.benefit >= tree_result.benefit
                 THEN template_result ELSE tree_result
            ELSE IF template_result.found THEN template_result
            ELSE IF tree_result.found THEN tree_result
            ELSE NothingFound
    IN IF SearchAsserts(dc, depth, tree) THEN SearchAborted
       ELSE Better(templateSearch_(dc, depth, tree), treeSearch_(dc, depth, tree))

(***************************************************************************)
(* The bounded lifted trees.                                               *)
(***************************************************************************)
MaxArgs == 2

Names == {"a", "b"}

Idents == { Identifier(v) : v \in Names }

ArgLists == UNION { [1..n -> Idents] : n \in 0..MaxArgs }

Calls == { CallExpression(c, args) : c \in Idents, args \in ArgLists }

SmallExprs ==
    Idents \cup { CallExpression(Identifier("a"), <<>>),
                  CallExpression(Identifier("a"), <<Identifier("b")>>) }

Returns == {ReturnAbsent, ReturnNull} \cup { ReturnStatement(x) : x \in SmallExprs }

ExprStmts ==
    { ExpressionStatement(x) : x \in SmallExprs } \cup
    { Directive("d", x) : x \in SmallExprs }

Programs ==
    { Program(<<>>), Program(<<ReturnNull>>),
      Program(<<ExpressionStatement(Identifier("a"))>>),
      Program(<<ExpressionStatement(Identifier("a")), ReturnNull>>),
      Program(<<Directive("d", Identifier("a")), ReturnAbsent>>) }

Unaries ==
    { UnaryExpression(operator, prefix, Identifier("a")) :
        operator \in {"-", "!"}, prefix \in BOOLEAN }
    \cup { UnaryExpression("-", TRUE, Identifier("b")) }

TemplateTrees == Idents \cup Calls \cup Returns \cup ExprStmts \cup Programs \cup Unaries

(***************************************************************************)
(* The values the variables of an operation that has not run yet hold.     *)
(***************************************************************************)
NoMatchYet == [status |-> "none", cuts |-> <<>>]

NoSearch == [NothingFound EXCEPT !.kind = "idle"]

TmplIdle ==
    /\ orig_node = NullRef /\ query_node = NullRef /\ tmpl_result = NoResult
    /\ match_query = NullRef /\ match_result = NoMatchYet

CacheIdle ==
    /\ depth_caches = <<>> /\ push_count = <<>>
    /\ search_depth = 0 /\ search_query = NullRef /\ search_result = NoSearch

WalkIdle ==
    /\ doc = NullRef /\ stack = <<>> /\ walk_state = 0 /\ walk_status = "idle"
    /\ events = <<>> /\ pruned = FALSE

VisitIdle == template_map = <<>> /\ cache_log = <<>>

NoLookup == [arg |-> "", status |-> "none", id |-> 0]

\* this.string_table = null
NoTable == [isnull |-> TRUE, use_counts |-> <<>>, sorted_arr |-> <<>>, idx_map |-> <<>>]

NumIdle == attrs = <<>>

NoLift == [status |-> "none", node |-> NoTree]

NoRaw == [type |-> "", props |-> <<>>]

LiftIdle == raw_obj = NoRaw /\ lift_mode = "none" /\ lift_result = NoLift

TableIdle ==
    /\ use_counts = <<>> /\ sorted_arr = <<>> /\ idx_map = <<>>
    /\ table_calls = <<>> /\ lookup_result = NoLookup

\* An integer of the encoder, hi * 65536 + lo with lo in 0..65535.
Wide(hi, lo) == [hi |-> hi, lo |-> lo]

\* The number n.
W(n) == Wide(n \div 65536, n % 65536)

NoArgs ==
    [num |-> W(0), tag |-> 0, rel_depth |-> 0, rev_index |-> 0, cuts |-> <<>>,
     val |-> [kind |-> "none"], node |-> NoTree]

Call(op, args, status, before, seq) ==
    [op |-> op, args |-> args, status |-> status, before |-> before, seq |-> seq]

NoCall == Call("none", NoArgs, "ok", 0, 0)

EncIdle == string_table = NoTable /\ bytes = <<>> /\ enc_call = NoCall

(***************************************************************************)
(* The template matcher on its own: ComputeTemplate.between(orig, query)   *)
(* for every pair of bounded trees, the two being one object or two, and   *)
(* then matchesTree of the template on a query.                            *)
(***************************************************************************)
InitTemplate ==
    /\ \E o \in TemplateTrees, q \in TemplateTrees, same \in BOOLEAN :
          /\ orig_node = Ref(<<1>>, o)
          /\ query_node = IF same THEN Ref(<<1>>, o) ELSE Ref(<<2>>, q)
    /\ tmpl_result = NoResult
    /\ match_query = NullRef /\ match_result = NoMatchYet
    /\ CacheIdle /\ WalkIdle /\ VisitIdle /\ NumIdle /\ LiftIdle /\ TableIdle /\ EncIdle

Compute ==
    /\ tmpl_result.status = "none"
    /\ tmpl_result' = ComputeTemplate(orig_node, query_node)
    /\ UNCHANGED <<orig_node, query_node, match_query, match_result>>
    /\ UNCHANGED <<cacheVars, walkVars, visitVars>>
    /\ UNCHANGED <<numVars, tableVars, encVars, liftVars>>

\* The query is the template's own tree, the query the template was made
\* for, or another node: a copy of one of the two or any other tree.
MatchesTree ==
    /\ tmpl_result.status = "ok"
    /\ match_result.status = "none"
    /\ \E qt \in {orig_node, query_node} \cup { Ref(<<3>>, t) : t \in TemplateTrees } :
          /\ match_query' = qt
          /\ match_result' = matchesTree(tmpl_result, qt)
    /\ UNCHANGED <<orig_node, query_node, tmpl_result>>
    /\ UNCHANGED <<cacheVars, walkVars, visitVars>>
    /\ UNCHANGED <<numVars, tableVars, encVars, liftVars>>

NextTemplate == Compute \/ MatchesTree

SpecTemplate == InitTemplate /\ [][NextTemplate]_vars

(***************************************************************************)
(* The depth cache on its own: any sequence of pushTree, pushTemplate and  *)
(* search calls.  search_result is what the last call returned.            *)
(***************************************************************************)
NoCount == [trees |-> 0, templates |-> 0]

CountEntry(pc, depth) ==
    IF Len(pc) > depth THEN pc
    ELSE pc \o [i \in 1..(depth + 1 - Len(pc)) |-> NoCount]

RECURSIVE TotalPushes(_)
TotalPushes(pc) ==
    IF pc = <<>> THEN 0
    ELSE Head(pc).trees + Head(pc).templates + TotalPushes(Tail(pc))

PushTree(depth, tree) ==
    /\ depth_caches' = pushTree(depth_caches, depth, tree)
    /\ push_count' = [CountEntry(push_count, depth) EXCEPT ![depth + 1].trees = @ + 1]
    /\ search_depth' = 0 /\ search_query' = NullRef /\ search_result' = NoSearch
    /\ UNCHANGED <<tmplVars, walkVars, visitVars>>
    /\ UNCHANGED <<numVars, tableVars, encVars, liftVars>>

PushTemplate(depth, template) ==
    /\ depth_caches' = pushTemplate(depth_caches, depth, template)
    /\ push_count' = [CountEntry(push_count, depth) EXCEPT ![depth + 1].templates = @ + 1]
    /\ search_depth' = 0 /\ search_query' = NullRef /\ search_result' = NoSearch
    /\ UNCHANGED <<tmplVars, walkVars, visitVars>>
    /\ UNCHANGED <<numVars, tableVars, encVars, liftVars>>

Search(depth, tree) ==
    /\ search_depth' = depth
    /\ search_query' = tree
    /\ search_result' = search(depth_caches, depth, tree)
    /\ UNCHANGED <<depth_caches, push_count>>
    /\ UNCHANGED <<tmplVars, walkVars, visitVars>>
    /\ UNCHANGED <<numVars, tableVars, encVars, liftVars>>

MaxPushes == 2

PushDepths == {0, 2}

SearchDepths == 0..4

CacheTrees == {Identifier("a"), Identifier("b"), ReturnNull}

TemplatePairs ==
    { <<Identifier("a"), Identifier("b")>>, <<Identifier("a"), Identifier("a")>>,
      <<ReturnNull, ReturnStatement(Identifier("a"))>> }

InitCache ==
    /\ CacheIdle /\ TmplIdle /\ WalkIdle /\ VisitIdle
    /\ NumIdle /\ LiftIdle /\ TableIdle /\ EncIdle

\* Every pushed tree is an object of its own; the query is another one.
CachePushTree ==
    /\ TotalPushes(push_count) < MaxPushes
    /\ \E depth \in PushDepths, t \in CacheTrees :
          PushTree(depth, Ref(<<TotalPushes(push_count) + 1>>, t))

CachePushTemplate ==
    /\ TotalPushes(push_count) < MaxPushes
    /\ \E depth \in PushDepths, p \in TemplatePairs :
          PushTemplate(depth,
                       ComputeTemplate(Ref(<<TotalPushes(push_count) + 1>>, p[1]),
                                       Ref(<<TotalPushes(push_count) + 101>>, p[2])))

CacheSearch ==
    \E depth \in SearchDepths, t \in CacheTrees : Search(depth, Ref(<<0>>, t))

NextCache == CachePushTree \/ CachePushTemplate \/ CacheSearch

SpecCache == InitCache /\ [][NextCache]_vars

(***************************************************************************)
(* One depth of the cache filled past its width: the k-th push to a buffer *)
(* pushes the k-th item.                                                   *)
(***************************************************************************)
MaxRingPushes == 66

RingTree(k) == Ref(<<k>>, Identifier("a"))

RingTemplate(k) == ComputeTemplate(RingTree(k), Ref(<<k + 1000>>, Identifier("b")))

RingPushTree ==
    /\ TotalPushes(push_count) < MaxRingPushes
    /\ PushTree(0, RingTree(CountEntry(push_count, 0)[1].trees + 1))

RingPushTemplate ==
    /\ TotalPushes(push_count) < MaxRingPushes
    /\ PushTemplate(0, RingTemplate(CountEntry(push_count, 0)[1].templates + 1))

RingSearch ==
    \E depth \in 0..1, t \in Idents : Search(depth, Ref(<<0>>, t))

NextRing == RingPushTree \/ RingPushTemplate \/ RingSearch

SpecRing == InitCache /\ [][NextRing]_vars

(***************************************************************************)
(* The tree walker.  prePostWalkHelper is recursive: the stack holds its   *)
(* activations, and an action is one callback, with the walker's control   *)
(* flow up to the next callback.                                           *)
(***************************************************************************)
\* One {name, child} pair of the children the walker goes through.
Entry(name, is_array, chs) == [name |-> name, is_array |-> is_array, chs |-> chs]

\* The direct children: node.forEachChild in the order of lifted_children.
NaturalChildren(h) ==
    [bi \in DOMAIN h.t.children |->
        LET b == h.t.children[bi]
        IN Entry(b.name, b.kind = "array",
                 IF b.kind = "null" THEN <<NullRef>>
                 ELSE [ei \in DOMAIN b.elems |-> ChildRef(h, bi, ei)])]

\* An activation of prePostWalkHelper(node, cb, attrs) that has not called
\* cb('begin') yet.
Frame(node, depth, number, name) ==
    [node |-> node, depth |-> depth, number |-> number, name |-> name,
     begun |-> FALSE, children |-> <<>>, ci |-> 1, ei |-> 1]

Walker(st, number, status) == [stack |-> st, number |-> number, status |-> status]

Pop(st) == SubSeq(st, 1, Len(st) - 1)

\* The loops of the helper up to its next callback: past the entries that
\* are used up and the null children, into the next child.
RECURSIVE Settle(_)
Settle(w) ==
    IF w.stack = <<>> THEN Walker(<<>>, w.number, "done")
    ELSE LET n == Len(w.stack)
             top == w.stack[n]
         IN IF ~top.begun \/ top.ci > Len(top.children) THEN w
            ELSE LET e == top.children[top.ci]
                 IN IF e.is_array /\ e.chs = <<>> THEN w
                    ELSE IF top.ei > Len(e.chs)
                    THEN Settle([w EXCEPT !.stack[n].ci = @ + 1, !.stack[n].ei = 1])
                    ELSE IF e.chs[top.ei].isnull
                    THEN Settle([w EXCEPT !.stack[n].ei = @ + 1])
                    ELSE Walker(Append([w.stack EXCEPT ![n].ei = @ + 1],
                                       Frame(e.chs[top.ei], top.depth + 1,
                                             w.number + 1, e.name)),
                                w.number + 1, "running")

\* return false treated as a plain return: only the subtree is left out.
ReturnFrom_pruneOnly(w, value) == Settle(Walker(Pop(w.stack), w.number, "running"))

\* The top activation returns: on false every caller sets brk and returns
\* false in turn, with no further callback; otherwise its caller goes on.
ReturnFrom(w, value) ==
    IF value = "false" THEN Walker(<<>>, w.number, "aborted")
    ELSE Settle(Walker(Pop(w.stack), w.number, "running"))

\* After cb('begin') returned ret: false, an array of children, or neither.
AfterBegin(w, ret, override) ==
    IF ret = "false" THEN ReturnFrom(w, "false")
    ELSE LET n == Len(w.stack)
         IN Settle([w EXCEPT !.stack[n].begun = TRUE,
                             !.stack[n].children =
                                 IF ret = "array" THEN override
                                 ELSE NaturalChildren(w.stack[n].node)])

\* After cb('empty_array') returned ret: the helper returns, false or nothing.
AfterEmptyArray(w, ret) == ReturnFrom(w, ret)

\* After cb('end') returned ret.
AfterEnd(w, ret) == ReturnFrom(w, ret)

Top == stack[Len(stack)]

AtBegin == walk_status = "running" /\ ~Top.begun

AtEmptyArray == walk_status = "running" /\ Top.begun /\ Top.ci <= Len(Top.children)

AtEnd == walk_status = "running" /\ Top.begun /\ Top.ci > Len(Top.children)

Event(when, id, depth, number, ret) ==
    [when |-> when, id |-> id, depth |-> depth, number |-> number, ret |-> ret]

SetWalker(w) ==
    /\ stack' = w.stack /\ walk_state' = w.number /\ walk_status' = w.status

\* prePostWalk(lifted_ast, cb)
StartWalk ==
    /\ walk_status = "idle"
    /\ SetWalker(Walker(<<Frame(doc, 0, 0, "<root>")>>, 0, "running"))
    /\ UNCHANGED <<doc, events, pruned, tmplVars, cacheVars, visitVars>>
    /\ UNCHANGED <<numVars, tableVars, encVars, liftVars>>

(***************************************************************************)
(* The walk with any visitor that does not override the children: each     *)
(* callback returns false or nothing.                                      *)
(***************************************************************************)
Returns2 == {"undefined", "false"}

WalkBegin ==
    /\ AtBegin
    /\ \E ret \in Returns2 :
          /\ SetWalker(AfterBegin(Walker(stack, walk_state, "running"), ret, <<>>))
          /\ events' = Append(events, Event("begin", Top.node.id, Top.depth, Top.number, ret))
          /\ pruned' = (pruned \/ ret = "false")
    /\ UNCHANGED <<doc, tmplVars, cacheVars, visitVars>>
    /\ UNCHANGED <<numVars, tableVars, encVars, liftVars>>

WalkEmptyArray ==
    /\ AtEmptyArray
    /\ \E ret \in Returns2 :
          /\ SetWalker(AfterEmptyArray(Walker(stack, walk_state, "running"), ret))
          /\ events' = Append(events, Event("empty_array", Top.node.id, Top.depth + 1, 0, ret))
          /\ pruned' = (pruned \/ ret = "false")
    /\ UNCHANGED <<doc, tmplVars, cacheVars, visitVars>>
    /\ UNCHANGED <<numVars, tableVars, encVars, liftVars>>

WalkEnd ==
    /\ AtEnd
    /\ \E ret \in Returns2 :
          /\ SetWalker(AfterEnd(Walker(stack, walk_state, "running"), ret))
          /\ events' = Append(events, Event("end", Top.node.id, Top.depth, Top.number, ret))
          /\ pruned' = (pruned \/ ret = "false")
    /\ UNCHANGED <<doc, tmplVars, cacheVars, visitVars>>
    /\ UNCHANGED <<numVars, tableVars, encVars, liftVars>>

MaxBody == 3

DocStatements ==
    { ExpressionStatement(Identifier("a")),
      ExpressionStatement(CallExpression(Identifier("a"), <<>>)),
      ExpressionStatement(CallExpression(Identifier("a"), <<Identifier("b")>>)),
      Directive("d", Identifier("a")),
      ReturnNull,
      ReturnStatement(Identifier("a")),
      ReturnStatement(Identifier("b")) }

Docs == { Program(body) : body \in UNION { [1..n -> DocStatements] : n \in 0..MaxBody } }

InitWalk ==
    /\ \E d \in Docs : doc = Ref(<<0>>, d)
    /\ stack = <<>> /\ walk_state = 0 /\ walk_status = "idle"
    /\ events = <<>> /\ pruned = FALSE
    /\ TmplIdle /\ CacheIdle /\ VisitIdle /\ NumIdle /\ LiftIdle /\ TableIdle /\ EncIdle

NextWalk == StartWalk \/ WalkBegin \/ WalkEmptyArray \/ WalkEnd

SpecWalk == InitWalk /\ [][NextWalk]_vars

(***************************************************************************)
(* The compression walk: compress() numbers the lifted tree and walks it   *)
(* with the visitor of makeCompressVisitor.                                *)
(***************************************************************************)
\* attrs.number as depthFirstNumber sets it: the pre-order index.
attrsNumber(root, h) ==
    LET nodes == PreOrder(root)
    IN (CHOOSE i \in DOMAIN nodes : nodes[i].id = h.id) - 1

\* Map.set and Map.delete on template_map, keyed by attrs.number.
MapSet(map, key, value) ==
    [k \in (DOMAIN map) \cup {key} |-> IF k = key THEN value ELSE map[k]]

MapDelete(map, key) == [k \in (DOMAIN map) \ {key} |-> map[k]]

\* The children the visitor returns for a match: one pair per cut whose
\* substitution is a node that is not null, or a node array.
IsChildCut(cut) ==
    \/ cut.subst.kind = "node" /\ cut.subst.nodes # <<>>
    \/ cut.subst.kind = "node_array"

CutChild(cut) == Entry("ref", cut.subst.kind = "node_array", cut.subst.nodes)

OverrideChildren(cuts) ==
    LET child_cuts == SelectSeq(cuts, IsChildCut)
    IN [i \in DOMAIN child_cuts |-> CutChild(child_cuts[i])]

VisitResult(ret, children, dc, map, log, match) ==
    [ret |-> ret, children |-> children, depth_caches |-> dc,
     template_map |-> map, cache_log |-> log, match |-> match]

\* The visitor on 'begin', pushing the node at once.
visitBegin_pushesAtBegin(dc, map, log, root, node) ==
    LET Found(match, dc2) ==
            IF match.aborted THEN VisitResult("throw", <<>>, dc2, map, log, match)
            ELSE IF ~match.found THEN VisitResult("undefined", <<>>, dc2, map, log, match)
            ELSE VisitResult("array", OverrideChildren(match.cuts), dc2,
                             IF match.kind = "template" THEN map
                             ELSE MapSet(map, attrsNumber(root, node), match.template),
                             log, match)
    IN Found(search(dc, DepthOf(node), node), pushTree(dc, DepthOf(node), node))

\* The visitor on 'begin': search the cache at the node's depth; without a
\* match return nothing, else record the template of a tree match and
\* return the substituted children.
visitBegin(dc, map, log, root, node) ==
    LET Found(match) ==
            IF match.aborted THEN VisitResult("throw", <<>>, dc, map, log, match)
            ELSE IF ~match.found THEN VisitResult("undefined", <<>>, dc, map, log, match)
            ELSE VisitResult("array", OverrideChildren(match.cuts), dc,
                             IF match.kind = "template" THEN map
                             ELSE MapSet(map, attrsNumber(root, node), match.template),
                             log, match)
    IN Found(search(dc, DepthOf(node), node))

Pushed(kind, depth, item) == [kind |-> kind, depth |-> depth, id |-> item.id]

\* The visitor on 'end': push the node, and the template recorded for it.
visitEnd(dc, map, log, root, node) ==
    LET depth == DepthOf(node)
        number == attrsNumber(root, node)
        dc1 == pushTree(dc, depth, node)
        log1 == Append(log, Pushed("tree", depth, node))
    IN IF number \in DOMAIN map
       THEN VisitResult("undefined", <<>>, pushTemplate(dc1, depth, map[number]),
                        MapDelete(map, number),
                        Append(log1, Pushed("template", depth, node)), NoSearch)
       ELSE VisitResult("undefined", <<>>, dc1, map, log1, NoSearch)

\* The push counts after the pushes that a log records.
RECURSIVE CountPushes(_, _)
CountPushes(pc, log) ==
    IF log = <<>> THEN pc
    ELSE LET p == Head(log)
             c == CountEntry(pc, p.depth)
         IN CountPushes(IF p.kind = "tree"
                        THEN [c EXCEPT ![p.depth + 1].trees = @ + 1]
                        ELSE [c EXCEPT ![p.depth + 1].templates = @ + 1],
                        Tail(log))

SetVisit(r) ==
    /\ depth_caches' = r.depth_caches
    /\ template_map' = r.template_map
    /\ cache_log' = r.cache_log
    /\ push_count' = CountPushes(<<>>, r.cache_log)

\* An exception leaves prePostWalk: nothing more is called.
Thrown(w) == Walker(<<>>, w.number, "thrown")

CompressBegin ==
    /\ AtBegin
    /\ \E r \in {visitBegin(depth_caches, template_map, cache_log, doc, Top.node)},
          w \in {Walker(stack, walk_state, "running")} :
          /\ SetVisit(r)
          /\ SetWalker(IF r.ret = "throw" THEN Thrown(w)
                       ELSE AfterBegin(w, r.ret, r.children))
          /\ events' = Append(events, Event("begin", Top.node.id, Top.depth, Top.number,
                                            r.match.kind))
          /\ search_depth' = DepthOf(Top.node)
          /\ search_query' = Top.node
          /\ search_result' = r.match
    /\ UNCHANGED <<doc, pruned, tmplVars>>
    /\ UNCHANGED <<numVars, tableVars, encVars, liftVars>>

CompressEmptyArray ==
    /\ AtEmptyArray
    /\ SetWalker(AfterEmptyArray(Walker(stack, walk_state, "running"), "undefined"))
    /\ events' = Append(events, Event("empty_array", Top.node.id, Top.depth + 1, 0, "undefined"))
    /\ UNCHANGED <<doc, pruned, tmplVars, cacheVars, visitVars>>
    /\ UNCHANGED <<numVars, tableVars, encVars, liftVars>>

CompressEnd ==
    /\ AtEnd
    /\ \E r \in {visitEnd(depth_caches, template_map, cache_log, doc, Top.node)} :
          /\ SetVisit(r)
          /\ SetWalker(AfterEnd(Walker(stack, walk_state, "running"), r.ret))
          /\ events' = Append(events, Event("end", Top.node.id, Top.depth, Top.number, r.ret))
    /\ search_depth' = 0 /\ search_query' = NullRef /\ search_result' = NoSearch
    /\ UNCHANGED <<doc, pruned, tmplVars>>
    /\ UNCHANGED <<numVars, tableVars, encVars, liftVars>>

NextCompress == StartWalk \/ CompressBegin \/ CompressEmptyArray \/ CompressEnd

SpecCompress == InitWalk /\ [][NextCompress]_vars

(***************************************************************************)
(* Depth-first numbering: BaseNode.depthFirstNumber gives every node of    *)
(* the tree its attrs.number and attrs.depth.  The counter n is threaded   *)
(* through the children as depthFirstNumberFrom_ returns it.               *)
(***************************************************************************)
Attr(h, num, depth) == [id |-> h.id, number |-> num, depth |-> depth]

Numbered(n, entries) == [n |-> n, attrs |-> entries]

RECURSIVE depthFirstNumberFrom_(_, _, _)

\* The children loop with n not taken from what the child's call returns.
RECURSIVE NumberChildren_countsChildOnly(_, _, _)
NumberChildren_countsChildOnly(children, acc, depth) ==
    IF children = <<>> THEN acc
    ELSE LET Next(r) == Numbered(acc.n + 1, acc.attrs \o r.attrs)
         IN NumberChildren_countsChildOnly(
                Tail(children),
                Next(depthFirstNumberFrom_(Head(children), acc.n, depth)), depth)

\* The forEachChild loop of depthFirstNumberFrom_: n = ch.depthFirstNumberFrom_(n, depth+1)
RECURSIVE NumberChildren(_, _, _)
NumberChildren(children, acc, depth) ==
    IF children = <<>> THEN acc
    ELSE LET Next(r) == Numbered(r.n, acc.attrs \o r.attrs)
         IN NumberChildren(Tail(children),
                           Next(depthFirstNumberFrom_(Head(children), acc.n, depth)),
                           depth)

depthFirstNumberFrom_(h, num, depth) ==
    NumberChildren(ChildRefs(h), Numbered(num + 1, <<Attr(h, num, depth)>>), depth + 1)

depthFirstNumber(root) == depthFirstNumberFrom_(root, 0, 0).attrs

DepthFirstNumber ==
    /\ ~doc.isnull /\ attrs = <<>>
    /\ attrs' = depthFirstNumber(doc)
    /\ UNCHANGED <<tmplVars, cacheVars, walkVars, visitVars, tableVars, encVars, liftVars>>

NextNumber == DepthFirstNumber

SpecNumber == InitWalk /\ [][NextNumber]_vars

(***************************************************************************)
(* The string table (StringTable of encoder.js).  A JS Map is a sequence   *)
(* of key/value pairs in insertion order; Map.set on a present key keeps   *)
(* the key's position.                                                     *)
(***************************************************************************)
MapHas(map, key) == \E i \in DOMAIN map : map[i].key = key

MapGet(map, key) == map[CHOOSE i \in DOMAIN map : map[i].key = key].value

MapPut(map, key, value) ==
    IF MapHas(map, key)
    THEN [i \in DOMAIN map |-> IF map[i].key = key
                               THEN [key |-> key, value |-> value] ELSE map[i]]
    ELSE Append(map, [key |-> key, value |-> value])

MapKeys(map) == [i \in DOMAIN map |-> map[i].key]

\* use_counts.set(s, (use_counts.get(s) || 0) + 1)
addString(uc, s) == MapPut(uc, s, (IF MapHas(uc, s) THEN MapGet(uc, s) ELSE 0) + 1)

\* sorted_arr.sort((a, b) => use_counts.get(b) - use_counts.get(a)): a is
\* put before the first element that has a smaller count, so equal counts
\* keep the order they had (Array.prototype.sort is stable).
RECURSIVE InsertByCount(_, _, _)
InsertByCount(uc, a, sorted) ==
    IF sorted = <<>> THEN <<a>>
    ELSE IF MapGet(uc, Head(sorted)) - MapGet(uc, a) > 0
         THEN <<Head(sorted)>> \o InsertByCount(uc, a, Tail(sorted))
         ELSE IF MapGet(uc, Head(sorted)) - MapGet(uc, a) < 0
              THEN <<a>> \o sorted
              ELSE <<Head(sorted)>> \o InsertByCount(uc, a, Tail(sorted))

\* The sort that puts a string ahead of the strings of equal count.
RECURSIVE SortByCount_tiesReversed(_, _)
SortByCount_tiesReversed(uc, arr) ==
    IF arr = <<>> THEN <<>>
    ELSE LET Ahead(a, sorted) ==
                 SelectSeq(sorted, LAMBDA b : MapGet(uc, b) > MapGet(uc, a))
                 \o <<a>>
                 \o SelectSeq(sorted, LAMBDA b : MapGet(uc, b) <= MapGet(uc, a))
         IN Ahead(arr[Len(arr)], SortByCount_tiesReversed(uc, SubSeq(arr, 1, Len(arr) - 1)))

RECURSIVE SortByCount(_, _)
SortByCount(uc, arr) ==
    IF arr = <<>> THEN <<>>
    ELSE InsertByCount(uc, arr[Len(arr)], SortByCount(uc, SubSeq(arr, 1, Len(arr) - 1)))

\* for (i ...) idx_map.set(sorted_arr[i], i)
RECURSIVE SetIndexes(_, _, _)
SetIndexes(im, sorted, i) ==
    IF i >= Len(sorted) THEN im
    ELSE SetIndexes(MapPut(im, sorted[i + 1], i), sorted, i + 1)

StringTable(uc, sorted, im) ==
    [isnull |-> FALSE, use_counts |-> uc, sorted_arr |-> sorted, idx_map |-> im]

finish(st) ==
    LET Indexed(sorted) == StringTable(st.use_counts, sorted,
                                       SetIndexes(st.idx_map, sorted, 0))
    IN Indexed(SortByCount(st.use_counts, MapKeys(st.use_counts)))

\* A lookup that asks use_counts whether the string is known.
lookup_byUseCounts(st, s) ==
    IF MapHas(st.use_counts, s)
    THEN [arg |-> s, status |-> "ok",
          id |-> IF MapHas(st.idx_map, s) THEN MapGet(st.idx_map, s) ELSE 0]
    ELSE [arg |-> s, status |-> "throw", id |-> 0]

\* assert(idx_map.has(s)); return idx_map.get(s)
lookup(st, s) ==
    IF MapHas(st.idx_map, s)
    THEN [arg |-> s, status |-> "ok", id |-> MapGet(st.idx_map, s)]
    ELSE [arg |-> s, status |-> "throw", id |-> 0]

MaxTableCalls == 4

TableStrings == {"a", "b", "c"}

TableCall(op, s) == [op |-> op, s |-> s]

AddString ==
    /\ Len(table_calls) < MaxTableCalls
    /\ \E s \in TableStrings :
          /\ use_counts' = addString(use_counts, s)
          /\ table_calls' = Append(table_calls, TableCall("add", s))
    /\ lookup_result' = NoLookup
    /\ UNCHANGED <<sorted_arr, idx_map>>
    /\ UNCHANGED <<tmplVars, cacheVars, walkVars, visitVars, numVars, encVars, liftVars>>

Finish ==
    /\ Len(table_calls) < MaxTableCalls
    /\ \E st \in {finish(StringTable(use_counts, sorted_arr, idx_map))} :
          /\ sorted_arr' = st.sorted_arr
          /\ idx_map' = st.idx_map
    /\ table_calls' = Append(table_calls, TableCall("finish", ""))
    /\ lookup_result' = NoLookup
    /\ UNCHANGED use_counts
    /\ UNCHANGED <<tmplVars, cacheVars, walkVars, visitVars, numVars, encVars, liftVars>>

Lookup ==
    /\ \E s \in TableStrings :
          lookup_result' = lookup(StringTable(use_counts, sorted_arr, idx_map), s)
    /\ UNCHANGED <<use_counts, sorted_arr, idx_map, table_calls>>
    /\ UNCHANGED <<tmplVars, cacheVars, walkVars, visitVars, numVars, encVars, liftVars>>

InitTable ==
    /\ TmplIdle /\ CacheIdle /\ WalkIdle /\ VisitIdle
    /\ NumIdle /\ LiftIdle /\ TableIdle /\ EncIdle

NextTable == AddString \/ Finish \/ Lookup

SpecTable == InitTable /\ [][NextTable]_vars

(***************************************************************************)
(* Numbers of the encoder.  A JS number that is an integer is kept as      *)
(* hi * 65536 + lo with lo in 0..65535, so that the values up to 2^32 - 1  *)
(* and the 32-bit conversions of the bitwise operators are exact.          *)
(***************************************************************************)
\* a <= b on numbers.
WideLe(a, b) == a.hi < b.hi \/ (a.hi = b.hi /\ a.lo <= b.lo)

\* ToInt32: what the operators &, |, >> and >>> take of a number.  With it
\*   x & m      is  Int32(x) % (m + 1)        for m = 0x7F, 0xFF
\*   x >> k     is  Int32(x) \div 2^k
\*   (x >>> 0) & 0xFF  is  Int32(x) % 256
Int32(w) ==
    LET Signed(h) == (IF h >= 32768 THEN h - 65536 ELSE h) * 65536 + w.lo
    IN Signed(w.hi % 65536)

(***************************************************************************)
(* The encoder (Encoder of encoder.js).  An encoder value is the bytes     *)
(* written so far and whether an assertion has failed; a failed assertion  *)
(* ends the call that made it, with the bytes written before it kept.      *)
(***************************************************************************)
PRIOR_TREE_CODE == 0
PRIOR_TEMPLATE_CODE == 1
RAW_IDENT_TYPE_CODE == 2
FIRST_NODE_TYPE_CODE == 3

NULL_CODE == 0
FALSE_CODE == 1
TRUE_CODE == 2

NANO_INT_MIN_CODE == 4
NANO_INT_MAX_CODE == 15
NANO_INT_RANGE == (NANO_INT_MAX_CODE - NANO_INT_MIN_CODE) + 1

NANO_INT_MIN == -1
NANO_INT_MAX == NANO_INT_MIN + (NANO_INT_RANGE - 1)

INT_TAG == 16
STR_TAG == 20

NANO_ARR_TAG == 32
NANO_ARR_MAX_LENGTH == 7

ARR_TAG == 40

Encoder(bs, status) == [bytes |-> bs, status |-> status]

Throw(e) == [e EXCEPT !.status = "throw"]

\* bytes.push((v >>> 0) & 0xFF), v an integer of the 32-bit range
writeU8(e, v) ==
    IF e.status # "ok" THEN e ELSE [e EXCEPT !.bytes = Append(@, v % 256)]

\* The loop of writeVarUint once v >>= 7 has made v a 32-bit integer.
RECURSIVE VarUintLoop(_, _)
VarUintLoop(e, v) ==
    IF v > 127 THEN VarUintLoop(writeU8(e, (v % 128) + 128), v \div 128)
    ELSE writeU8(e, v)

writeVarUint(e, v) ==
    IF e.status # "ok" THEN e
    ELSE IF ~WideLe(v, Wide(65535, 65535)) THEN Throw(e)
    ELSE IF WideLe(v, W(127)) THEN writeU8(e, Int32(v))
    ELSE VarUintLoop(writeU8(e, (Int32(v) % 128) + 128), Int32(v) \div 128)

(***************************************************************************)
(* Calls on an encoder.  enc_call keeps the operation, its arguments, its  *)
(* outcome, the length of the buffer before it, and how many calls were    *)
(* made.                                                                   *)
(***************************************************************************)
MaxCalls == 2

CanCall == enc_call.status = "ok" /\ enc_call.seq < MaxCalls

\* The state after a call that took the encoder from the present bytes to e.
Called(op, args, e) ==
    /\ bytes' = e.bytes
    /\ enc_call' = Call(op, args, e.status, Len(bytes), enc_call.seq + 1)

InitEncoder ==
    /\ TmplIdle /\ CacheIdle /\ WalkIdle /\ VisitIdle /\ NumIdle /\ LiftIdle /\ TableIdle
    /\ string_table = NoTable /\ bytes = <<>> /\ enc_call = NoCall

\* The integers the calls are tried on: the ends of every septet and byte
\* width, of the 31-bit and of the 32-bit range, and -1.
WideInputs ==
    { Wide(h, l) : h \in {0, 1, 255, 256, 32767, 32768, 65535, 65536},
                   l \in {0, 1, 127, 128, 16383, 16384, 65535} }
    \cup {W(-1)}

WriteVarUint ==
    /\ CanCall
    /\ \E v \in WideInputs :
          Called("writeVarUint", [NoArgs EXCEPT !.num = v],
                 writeVarUint(Encoder(bytes, "ok"), v))
    /\ UNCHANGED string_table
    /\ UNCHANGED <<tmplVars, cacheVars, walkVars, visitVars, numVars, tableVars, liftVars>>

NextVarUint == WriteVarUint

SpecVarUint == InitEncoder /\ [][NextVarUint]_vars

(***************************************************************************)
(* JS values as writeValue tells them apart: null, a boolean, an integer,  *)
(* a string, an array of values, and anything else (undefined, an object). *)
(***************************************************************************)
Value(kind, b, num, str, elems) ==
    [kind |-> kind, b |-> b, num |-> num, str |-> str, elems |-> elems]

NullVal == Value("null", FALSE, W(0), "", <<>>)

BoolVal(b) == Value("boolean", b, W(0), "", <<>>)

IntVal(w) == Value("integer", FALSE, w, "", <<>>)

StrVal(str) == Value("string", FALSE, W(0), str, <<>>)

ArrVal(elems) == Value("array", FALSE, W(0), "", elems)

OtherVal == Value("undefined", FALSE, W(0), "", <<>>)

isNanoInt(i) == WideLe(W(NANO_INT_MIN), i) /\ WideLe(i, W(NANO_INT_MAX))

nanoIntCode(i) == (Int32(i) - NANO_INT_MIN) + NANO_INT_MIN_CODE

\* A writeTaggedNum without the assertion num <= (-1 >>> 1).
writeTaggedNum_noUpperAssert(e, tag, num) ==
    LET Bytes(n) ==
            IF n >= 0 /\ n <= 255
            THEN writeU8(writeU8(e, INT_TAG + 0), n)
            ELSE IF n >= 0 /\ n <= 65535
            THEN writeU8(writeU8(writeU8(e, INT_TAG + 1), n % 256), (n \div 256) % 256)
            ELSE IF n >= 0 /\ n <= 16777215
            THEN writeU8(writeU8(writeU8(writeU8(e, INT_TAG + 2), n % 256),
                                 (n \div 256) % 256), (n \div 65536) % 256)
            ELSE IF n = -1 THEN Throw(e)
            ELSE writeU8(writeU8(writeU8(writeU8(writeU8(e, INT_TAG + 3), n % 256),
                                         (n \div 256) % 256), (n \div 65536) % 256),
                         (n \div 16777216) % 256)
    IN IF e.status # "ok" THEN e
       ELSE IF ~WideLe(Wide(-32768, 0), num) THEN Throw(e)
       ELSE Bytes(Int32(num))

\* assert(num >= (-1 << 31)); assert(num <= (-1 >>> 1)); then the width is
\* chosen by (num >>> 0), which is at most k iff 0 <= num <= k.  The first
\* byte is INT_TAG | size, whatever the tag argument is.
writeTaggedNum(e, tag, num) ==
    LET Bytes(n) ==
            IF n >= 0 /\ n <= 255
            THEN writeU8(writeU8(e, INT_TAG + 0), n)
            ELSE IF n >= 0 /\ n <= 65535
            THEN writeU8(writeU8(writeU8(e, INT_TAG + 1), n % 256), (n \div 256) % 256)
            ELSE IF n >= 0 /\ n <= 16777215
            THEN writeU8(writeU8(writeU8(writeU8(e, INT_TAG + 2), n % 256),
                                 (n \div 256) % 256), (n \div 65536) % 256)
            ELSE IF n = -1 THEN Throw(e)
            ELSE writeU8(writeU8(writeU8(writeU8(writeU8(e, INT_TAG + 3), n % 256),
                                         (n \div 256) % 256), (n \div 65536) % 256),
                         (n \div 16777216) % 256)
    IN IF e.status # "ok" THEN e
       ELSE IF ~WideLe(Wide(-32768, 0), num) THEN Throw(e)
       ELSE IF ~WideLe(num, Wide(32767, 65535)) THEN Throw(e)
       ELSE Bytes(Int32(num))

RECURSIVE writeValue(_, _, _)

\* for (i ...) this.writeValue(val[i])
RECURSIVE WriteElements(_, _, _)
WriteElements(e, st, elems) ==
    IF elems = <<>> THEN e
    ELSE WriteElements(writeValue(e, st, Head(elems)), st, Tail(elems))

\* this.string_table.lookup(val) fails on the null table as on an unknown
\* string.
writeValue(e, st, val) ==
    LET Found(r) == IF r.status = "ok" THEN writeTaggedNum(e, STR_TAG, W(r.id))
                    ELSE Throw(e)
    IN IF e.status # "ok" THEN e
       ELSE IF val.kind = "null" THEN writeU8(e, NULL_CODE)
       ELSE IF val.kind = "boolean" /\ ~val.b THEN writeU8(e, FALSE_CODE)
       ELSE IF val.kind = "boolean" THEN writeU8(e, TRUE_CODE)
       ELSE IF val.kind = "integer" /\ isNanoInt(val.num)
            THEN writeU8(e, nanoIntCode(val.num))
       ELSE IF val.kind = "integer" THEN writeTaggedNum(e, INT_TAG, val.num)
       ELSE IF val.kind = "string"
            THEN IF st.isnull THEN Throw(e) ELSE Found(lookup(st, val.str))
       ELSE IF val.kind = "array"
            THEN WriteElements(IF Len(val.elems) < NANO_ARR_MAX_LENGTH
                               THEN writeU8(e, NANO_ARR_TAG + Len(val.elems))
                               ELSE writeTaggedNum(e, ARR_TAG, W(Len(val.elems))),
                               st, val.elems)
       ELSE Throw(e)

\* The code units of the strings the tables hold.
CharCodes(str) ==
    CASE str = "a" -> <<97>>
      [] str = "b" -> <<98>>
      [] str = "xy" -> <<120, 121>>
      [] str = "script" -> <<115, 99, 114, 105, 112, 116>>
      [] OTHER -> <<>>

RECURSIVE WriteBytes(_, _)
WriteBytes(e, bs) == IF bs = <<>> THEN e ELSE WriteBytes(writeU8(e, Head(bs)), Tail(bs))

RECURSIVE WriteStrings(_, _)
WriteStrings(e, strs) ==
    IF strs = <<>> THEN e
    ELSE WriteStrings(WriteBytes(writeVarUint(e, W(Len(Head(strs)))),
                                 CharCodes(Head(strs))),
                      Tail(strs))

writeStringTable(e, st) ==
    WriteStrings(writeVarUint(e, W(Len(st.sorted_arr))), st.sorted_arr)

RECURSIVE WriteFields(_, _, _)
WriteFields(e, st, fields) ==
    IF fields = <<>> THEN e
    ELSE WriteFields(writeValue(e, st, Head(fields).value), st, Tail(fields))

\* this.writeVarUint(node.type.typeCode()): NodeType defines no typeCode
\* (nor does anything set one on the frozen type object), so evaluating the
\* argument throws a TypeError and writeVarUint is not entered.
typeCodeCall(e, type) == Throw(e)

writeDirectNode(e, st, node) ==
    IF e.status # "ok" THEN e
    ELSE WriteFields(typeCodeCall(e, node.type), st, node.fields)

(***************************************************************************)
(* Calls of writeStringTable, writeValue, writeTaggedNum, writeDirectNode. *)
(***************************************************************************)
RECURSIVE AddAll(_, _)
AddAll(uc, strs) ==
    IF strs = <<>> THEN uc ELSE AddAll(addString(uc, Head(strs)), Tail(strs))

\* A table in use: "b" twice, "a", "script" and "xy" once; finished, and
\* not yet finished.
EncTables ==
    { finish(StringTable(AddAll(<<>>, <<"a", "b", "script", "b", "xy">>), <<>>, <<>>)),
      StringTable(AddAll(<<>>, <<"a", "b", "script", "b", "xy">>), <<>>, <<>>) }

IntInputs ==
    { W(n) : n \in {-2, -1, 0, 10, 11, 255, 256, 65535, 65536, 16777215, 16777216} }
    \cup { Wide(32767, 65535), Wide(-32768, 0), Wide(32768, 0), Wide(65535, 65535),
           Wide(-32769, 65535) }

Repeat(v, n) == [i \in 1..n |-> v]

ValueInputs ==
    {NullVal, BoolVal(FALSE), BoolVal(TRUE), OtherVal}
    \cup { IntVal(w) : w \in IntInputs }
    \cup { StrVal(str) : str \in {"a", "b", "zz"} }
    \cup { ArrVal(elems) : elems \in { <<>>, <<NullVal>>, Repeat(BoolVal(TRUE), 6),
                                       Repeat(NullVal, 7),
                                       <<IntVal(W(11)), OtherVal>> } }

TagInputs == {INT_TAG, STR_TAG, ARR_TAG}

TaggedInputs ==
    { W(n) : n \in {-2, 0, 255, 256, 65536, 16777216} } \cup { Wide(32768, 0) }

\* Nodes with their fields' values; the children are not written.
NodeInputs ==
    { BaseNode("Identifier", <<Field("name", StrVal("a"))>>, <<>>),
      BaseNode("Identifier", <<Field("name", StrVal("xy"))>>, <<>>),
      BaseNode("Literal", <<Field("value", IntVal(W(3)))>>, <<>>),
      BaseNode("Program", <<Field("sourceType", StrVal("script"))>>,
               <<Branch("body", "array", <<>>)>>),
      BaseNode("Property",
               <<Field("computed", BoolVal(FALSE)), Field("kind", StrVal("a")),
                 Field("method", BoolVal(FALSE)), Field("shorthand", BoolVal(TRUE))>>,
               <<>>),
      ReturnStatement(Identifier("a")) }

WriteStringTable ==
    /\ CanCall
    /\ \E st \in EncTables :
          /\ string_table' = st
          /\ Called("writeStringTable", NoArgs, writeStringTable(Encoder(bytes, "ok"), st))
    /\ UNCHANGED <<tmplVars, cacheVars, walkVars, visitVars, numVars, tableVars, liftVars>>

WriteValue ==
    /\ CanCall
    /\ \E val \in ValueInputs :
          Called("writeValue", [NoArgs EXCEPT !.val = val],
                 writeValue(Encoder(bytes, "ok"), string_table, val))
    /\ UNCHANGED string_table
    /\ UNCHANGED <<tmplVars, cacheVars, walkVars, visitVars, numVars, tableVars, liftVars>>

WriteTaggedNum ==
    /\ CanCall
    /\ \E tag \in TagInputs, num \in TaggedInputs :
          Called("writeTaggedNum", [NoArgs EXCEPT !.tag = tag, !.num = num],
                 writeTaggedNum(Encoder(bytes, "ok"), tag, num))
    /\ UNCHANGED string_table
    /\ UNCHANGED <<tmplVars, cacheVars, walkVars, visitVars, numVars, tableVars, liftVars>>

WriteDirectNode ==
    /\ CanCall
    /\ \E node \in NodeInputs :
          Called("writeDirectNode", [NoArgs EXCEPT !.node = node],
                 writeDirectNode(Encoder(bytes, "ok"), string_table, node))
    /\ UNCHANGED string_table
    /\ UNCHANGED <<tmplVars, cacheVars, walkVars, visitVars, numVars, tableVars, liftVars>>

NextValue == WriteStringTable \/ WriteValue \/ WriteTaggedNum \/ WriteDirectNode

SpecValue == InitEncoder /\ [][NextValue]_vars

(***************************************************************************)
(* References to a prior tree or template.                                 *)
(***************************************************************************)
\* for (let cut of cuts) this.writeU8(cut)
RECURSIVE WriteCuts(_, _)
WriteCuts(e, cuts) ==
    IF cuts = <<>> THEN e ELSE WriteCuts(writeU8(e, Head(cuts)), Tail(cuts))

writeSubtreeRef(e, rel_depth, rev_index, cuts) ==
    IF e.status # "ok" THEN e
    ELSE IF ~(rel_depth >= -63 /\ rel_depth <= 63) THEN Throw(e)
    ELSE IF ~(rev_index <= 255) THEN Throw(e)
    ELSE writeU8(WriteCuts(writeU8(writeU8(writeVarUint(e, W(PRIOR_TREE_CODE)),
                                           rel_depth),
                                   rev_index),
                           cuts),
                 255)

writeTemplateRef(e, rel_depth, rev_index) ==
    IF e.status # "ok" THEN e
    ELSE IF ~(rel_depth >= -63 /\ rel_depth <= 63) THEN Throw(e)
    ELSE IF ~(rev_index <= 255) THEN Throw(e)
    ELSE writeU8(writeU8(writeVarUint(e, W(PRIOR_TEMPLATE_CODE)), rel_depth), rev_index)

DepthInputs == {-64, -63, -1, 0, 63, 64}

IndexInputs == {-1, 0, 1, 255, 256}

CutInputs == { <<>>, <<1>>, <<1, 3>>, <<254>>, <<255>>, <<256>>, <<257>> }

WriteSubtreeRef ==
    /\ CanCall
    /\ \E rel_depth \in DepthInputs, rev_index \in IndexInputs, cuts \in CutInputs :
          Called("writeSubtreeRef",
                 [NoArgs EXCEPT !.rel_depth = rel_depth, !.rev_index = rev_index,
                                !.cuts = cuts],
                 writeSubtreeRef(Encoder(bytes, "ok"), rel_depth, rev_index, cuts))
    /\ UNCHANGED string_table
    /\ UNCHANGED <<tmplVars, cacheVars, walkVars, visitVars, numVars, tableVars, liftVars>>

WriteTemplateRef ==
    /\ CanCall
    /\ \E rel_depth \in DepthInputs, rev_index \in IndexInputs :
          Called("writeTemplateRef",
                 [NoArgs EXCEPT !.rel_depth = rel_depth, !.rev_index = rev_index],
                 writeTemplateRef(Encoder(bytes, "ok"), rel_depth, rev_index))
    /\ UNCHANGED string_table
    /\ UNCHANGED <<tmplVars, cacheVars, walkVars, visitVars, numVars, tableVars, liftVars>>

NextRef == WriteSubtreeRef \/ WriteTemplateRef

SpecRef == InitEncoder /\ [][NextRef]_vars

(***************************************************************************)
(* The lifter.  A raw node object is its type and its other own            *)
(* properties in order; a property value is a primitive, null, a raw node  *)
(* object or an array of such values.                                      *)
(***************************************************************************)
Prop(name, val) == [name |-> name, val |-> val]

RawNode(type, props) == [type |-> type, props |-> props]

RawPrim(p) == [kind |-> "prim", prim |-> p, elems |-> <<>>]

RawNull == [kind |-> "null", prim |-> "", elems |-> <<>>]

RawObj(n) == [kind |-> "node", prim |-> "", elems |-> <<n>>]

RawArr(vs) == [kind |-> "array", prim |-> "", elems |-> vs]

\* typeof(value) == 'object' and Array.isArray(value)
IsObject(val) == val.kind \in {"null", "node", "array"}

IsArray(val) == val.kind = "array"

\* FieldInfo.parseNameEntry: '*' is array, '?' is opt, '-' is del.
FieldInfo(name, array, opt, del) ==
    [name |-> name, array |-> array, opt |-> opt, del |-> del]

Plain(name) == FieldInfo(name, FALSE, FALSE, FALSE)

Optional(name) == FieldInfo(name, FALSE, TRUE, FALSE)

Deleted(name) == FieldInfo(name, FALSE, FALSE, TRUE)

Starred(name) == FieldInfo(name, TRUE, FALSE, FALSE)

IsDel(f) == f.del

IsKept(f) == ~f.del

\* new NodeType({name, short_name, fields, branches})
NodeType(name, fields, branches) ==
    [name |-> name,
     fields |-> SelectSeq(fields, IsKept), branches |-> SelectSeq(branches, IsKept),
     del_fields |-> SelectSeq(fields, IsDel), del_branches |-> SelectSeq(branches, IsDel)]

\* The entries of node_type_list that the bounded raw trees use.
node_type_list ==
    << NodeType("Identifier", <<Plain("name")>>, <<>>),
       NodeType("Literal", <<Plain("value"), Deleted("raw"), Optional("regex")>>, <<>>),
       NodeType("CallExpression", <<>>, <<Plain("callee"), Starred("arguments")>>),
       NodeType("ReturnStatement", <<>>, <<Optional("argument")>>),
       NodeType("Unknown", <<>>, <<>>) >>

\* NodeType.C[name] is defined, and NodeType.T[name].
IsRegistered(name) == \E i \in DOMAIN node_type_list : node_type_list[i].name = name

TypeOf(name) ==
    node_type_list[CHOOSE i \in DOMAIN node_type_list : node_type_list[i].name = name]

\* name in node_obj, node_obj[name] and delete node_obj[name]
HasProp(raw, name) == \E i \in DOMAIN raw.props : raw.props[i].name = name

GetProp(raw, name) ==
    raw.props[CHOOSE i \in DOMAIN raw.props : raw.props[i].name = name].val

DeleteProps(raw, infos) ==
    LET Stays(pr) == \A i \in DOMAIN infos : infos[i].name # pr.name
    IN [raw EXCEPT !.props = SelectSeq(@, Stays)]

\* What a lift gives: the node, or an exception.
Lifted(node) == [status |-> "ok", node |-> node]

LiftThrows == [status |-> "throw", node |-> NoTree]

\* eachLiftedFieldInObj over the fields from the i-th on: the Field of
\* every field that is in the object; a required one that is not throws.
RECURSIVE LiftFields(_, _, _, _)
LiftFields(type, raw, i, acc) ==
    IF i > Len(type.fields) THEN [status |-> "ok", fields |-> acc]
    ELSE IF HasProp(raw, type.fields[i].name)
    THEN LiftFields(type, raw, i + 1,
                    Append(acc, Field(type.fields[i].name,
                                      LET v == GetProp(raw, type.fields[i].name)
                                      IN IF v.kind = "prim" THEN v.prim ELSE v)))
    ELSE IF ~type.fields[i].opt THEN [status |-> "throw", fields |-> <<>>]
    ELSE LiftFields(type, raw, i + 1, acc)

RECURSIVE mustLiftObj(_)

\* value.map(NodeType.mustLiftObj): an element that is null or not an
\* object has no type that is registered.
RECURSIVE LiftElements(_, _)
LiftElements(vals, acc) ==
    IF vals = <<>> THEN [status |-> "ok", nodes |-> acc]
    ELSE IF Head(vals).kind # "node" THEN [status |-> "throw", nodes |-> <<>>]
    ELSE LET Next(r) ==
                 IF r.status # "ok" THEN [status |-> "throw", nodes |-> <<>>]
                 ELSE LiftElements(Tail(vals), Append(acc, r.node))
         IN Next(mustLiftObj(Head(vals).elems[1]))

\* The callback of eachLiftedChildInObj on one branch that is in the
\* object: the Branch it sets, none, or an exception.
LiftChild(br, value) ==
    LET One(r) == IF r.status # "ok" THEN [status |-> "throw", set |-> <<>>]
                  ELSE [status |-> "ok", set |-> <<Branch(br.name, "node", <<r.node>>)>>]
        Many(r) == IF r.status # "ok" THEN [status |-> "throw", set |-> <<>>]
                   ELSE [status |-> "ok", set |-> <<Branch(br.name, "array", r.nodes)>>]
    IN IF IsObject(value)
       THEN IF br.array
            THEN IF ~IsArray(value) THEN [status |-> "throw", set |-> <<>>]
                 ELSE Many(LiftElements(value.elems, <<>>))
            ELSE IF IsArray(value) THEN [status |-> "throw", set |-> <<>>]
            ELSE IF value.kind = "null"
            THEN IF br.opt
                 THEN [status |-> "ok", set |-> <<Branch(br.name, "null", <<>>)>>]
                 ELSE [status |-> "throw", set |-> <<>>]
            ELSE One(mustLiftObj(value.elems[1]))
       ELSE IF ~br.opt THEN [status |-> "throw", set |-> <<>>]
       ELSE [status |-> "ok", set |-> <<>>]

RECURSIVE LiftChildren(_, _, _, _)
LiftChildren(type, raw, i, acc) ==
    IF i > Len(type.branches) THEN [status |-> "ok", children |-> acc]
    ELSE IF HasProp(raw, type.branches[i].name)
    THEN LET Next(r) ==
                 IF r.status # "ok" THEN [status |-> "throw", children |-> <<>>]
                 ELSE LiftChildren(type, raw, i + 1, acc \o r.set)
         IN Next(LiftChild(type.branches[i], GetProp(raw, type.branches[i].name)))
    ELSE IF ~type.branches[i].opt THEN [status |-> "throw", children |-> <<>>]
    ELSE LiftChildren(type, raw, i + 1, acc)

Declares(infos, name) == \E i \in DOMAIN infos : infos[i].name = name

DeclaresArray(infos, name) ==
    \E i \in DOMAIN infos : infos[i].name = name /\ infos[i].array

\* NodeType.verifyNode passes: nothing is checked for the Unknown type;
\* else every property but type, range and loc is a field or a branch, an
\* array where the descriptor is one, and every required name was seen.
verifyNode_noPropertyCheck(type, raw) ==
    \/ type.name = "Unknown"
    \/ /\ \A i \in DOMAIN raw.props :
             raw.props[i].name \in {"range", "loc"} \/
             (   (DeclaresArray(type.fields, raw.props[i].name)
                     \/ DeclaresArray(type.branches, raw.props[i].name))
                 => IsArray(raw.props[i].val))
       /\ \A i \in DOMAIN type.fields :
             type.fields[i].opt \/ HasProp(raw, type.fields[i].name)
       /\ \A i \in DOMAIN type.branches :
             type.branches[i].opt \/ HasProp(raw, type.branches[i].name)

verifyNode(type, raw) ==
    \/ type.name = "Unknown"
    \/ /\ \A i \in DOMAIN raw.props :
             raw.props[i].name \in {"range", "loc"} \/
             /\ Declares(type.fields, raw.props[i].name)
                   \/ Declares(type.branches, raw.props[i].name)
             /\ (DeclaresArray(type.fields, raw.props[i].name)
                    \/ DeclaresArray(type.branches, raw.props[i].name))
                => IsArray(raw.props[i].val)
       /\ \A i \in DOMAIN type.fields :
             type.fields[i].opt \/ HasProp(raw, type.fields[i].name)
       /\ \A i \in DOMAIN type.branches :
             type.branches[i].opt \/ HasProp(raw, type.branches[i].name)

\* new C(node_obj): the BaseNode constructor deletes the del names, lifts
\* the fields and the children, and verifies.
NewNode(type, node_obj) ==
    LET Stripped(raw) ==
            LET WithChildren(fs, cs) ==
                    IF cs.status # "ok" THEN LiftThrows
                    ELSE IF ~verifyNode(type, raw) THEN LiftThrows
                    ELSE Lifted(BaseNode(type.name, fs.fields, cs.children))
                WithFields(fs) ==
                    IF fs.status # "ok" THEN LiftThrows
                    ELSE WithChildren(fs, LiftChildren(type, raw, 1, <<>>))
            IN WithFields(LiftFields(type, raw, 1, <<>>))
    IN Stripped(DeleteProps(DeleteProps(node_obj, type.del_fields), type.del_branches))

mustLiftObj(node_obj) ==
    IF ~IsRegistered(node_obj.type) THEN LiftThrows
    ELSE NewNode(TypeOf(node_obj.type), node_obj)

\* NodeType.C[node_obj.type] || Unknown
sloppyLiftObj(node_obj) ==
    IF IsRegistered(node_obj.type) THEN NewNode(TypeOf(node_obj.type), node_obj)
    ELSE NewNode(TypeOf("Unknown"), node_obj)

\* The raw objects the lifts are tried on: leaves that are in order and
\* leaves with one thing amiss, alone, as the argument of a return and as
\* the callee or an argument of a call.
RawIdentifier(v) == RawNode("Identifier", <<Prop("name", RawPrim(v))>>)

RawLeaves ==
    { RawIdentifier("a"),
      RawNode("Identifier", <<Prop("range", RawArr(<<>>)), Prop("name", RawPrim("a")),
                              Prop("loc", RawNull)>>),
      RawNode("Literal", <<Prop("value", RawPrim("x")), Prop("raw", RawPrim("'x'"))>>),
      RawNode("Literal", <<Prop("value", RawNull), Prop("regex", RawNull)>>),
      RawNode("ReturnStatement", <<>>),
      RawNode("ReturnStatement", <<Prop("argument", RawNull)>>),
      RawNode("ReturnStatement", <<Prop("argument", RawPrim("a"))>>),
      RawNode("Unknown", <<Prop("anything", RawPrim("a"))>>),
      RawNode("Bogus", <<>>),
      RawNode("Identifier", <<>>),
      RawNode("Identifier", <<Prop("name", RawPrim("a")), Prop("extra", RawPrim("b"))>>),
      RawNode("Identifier", <<Prop("name", RawArr(<<RawPrim("a")>>))>>),
      RawNode("ReturnStatement", <<Prop("argument", RawArr(<<RawObj(RawIdentifier("a"))>>))>>),
      RawNode("CallExpression", <<Prop("callee", RawObj(RawIdentifier("a")))>>),
      RawNode("CallExpression", <<Prop("arguments", RawArr(<<>>))>>),
      RawNode("CallExpression", <<Prop("callee", RawNull), Prop("arguments", RawArr(<<>>))>>),
      RawNode("CallExpression", <<Prop("callee", RawObj(RawIdentifier("a"))),
                                  Prop("arguments", RawObj(RawIdentifier("b")))>>),
      RawNode("CallExpression", <<Prop("callee", RawObj(RawIdentifier("a"))),
                                  Prop("arguments", RawArr(<<RawNull>>))>>) }

RawInputs ==
    RawLeaves
    \cup { RawNode("ReturnStatement", <<Prop("argument", RawObj(n))>>) : n \in RawLeaves }
    \cup { RawNode("CallExpression", <<Prop("callee", RawObj(n)),
                                       Prop("arguments", RawArr(<<>>))>>) : n \in RawLeaves }
    \cup { RawNode("CallExpression", <<Prop("callee", RawObj(RawIdentifier("a"))),
                                       Prop("arguments",
                                            RawArr(<<RawObj(RawIdentifier("b")), RawObj(n)>>))>>) :
             n \in RawLeaves }

InitLift ==
    /\ TmplIdle /\ CacheIdle /\ WalkIdle /\ VisitIdle /\ NumIdle /\ TableIdle /\ EncIdle
    /\ raw_obj \in RawInputs /\ lift_mode = "none" /\ lift_result = NoLift

MustLiftObj ==
    /\ lift_mode = "none"
    /\ lift_mode' = "must"
    /\ lift_result' = mustLiftObj(raw_obj)
    /\ UNCHANGED raw_obj
    /\ UNCHANGED <<tmplVars, cacheVars, walkVars, visitVars, numVars, tableVars, encVars>>

SloppyLiftObj ==
    /\ lift_mode = "none"
    /\ lift_mode' = "sloppy"
    /\ lift_result' = sloppyLiftObj(raw_obj)
    /\ UNCHANGED raw_obj
    /\ UNCHANGED <<tmplVars, cacheVars, walkVars, visitVars, numVars, tableVars, encVars>>

NextLift == MustLiftObj \/ SloppyLiftObj

SpecLift == InitLift /\ [][NextLift]_vars

(***************************************************************************)
(* Properties of the template matcher.                                     *)
(***************************************************************************)
Computed == tmpl_result.status # "none"

SameObject == orig_node.id = query_node.id

IdenticalCopy == orig_node.t = query_node.t /\ ~SameObject

IdentityTemplate ==
    /\ tmpl_result.status = "ok"
    /\ tmpl_result.cut_count = 0
    /\ tmpl_result.cuts = <<>>
    /\ tmpl_result.step_count >= 1
    /\ tmpl_result.benefit = tmpl_result.step_count - 1

\* C7 as stated: for any subtree t, compute_template(t, t) completes and
\* yields cut_count = 0, no cuts, step_count >= 1 and
\* benefit = step_count - 1; t against itself is the same node object.
C7_AsStated == (Computed /\ orig_node.t = query_node.t) => IdentityTemplate

\* C7 amended: compute_template of a subtree t and a distinct node that is
\* structurally identical to t completes with cut_count = 0, no cuts,
\* step_count >= 1 and benefit = step_count - 1; with one node object as
\* both origin and query the constructor's assertion aborts the run.
C7_IdenticalCopy ==
    /\ (Computed /\ IdenticalCopy) => IdentityTemplate
    /\ (Computed /\ SameObject) => tmpl_result.status = "abort"

C7_Witness ==
    /\ Computed /\ IdenticalCopy
    /\ tmpl_result.step_count >= 5
    /\ orig_node.t.fields # <<>>

Matched == match_result.status # "none"

\* C8 as stated: for every template produced by compute_template,
\* template.matches(template.tree) returns a cut list and never reports
\* no-match or aborts.
C8_AsStated ==
    (Matched /\ match_query = tmpl_result.tree) => match_result.status = "cuts"

\* C8 amended: for every template produced by compute_template(o, q),
\* template.matches(template.tree) aborts on the constructor's assertion
\* that origin and query are not one object; template.matches(q), and
\* template.matches of a distinct copy of q, returns a cut list with the
\* template's cut numbers and never reports no-match or aborts.
C8_MatchesOwnQuery ==
    /\ (Matched /\ match_query.id = tmpl_result.tree.id)
          => match_result.status = "abort"
    /\ (Matched /\ match_query.t = query_node.t
                /\ match_query.id # tmpl_result.tree.id)
          => /\ match_result.status = "cuts"
             /\ Len(match_result.cuts) = Len(tmpl_result.cuts)
             /\ \A i \in DOMAIN match_result.cuts :
                    match_result.cuts[i].num = tmpl_result.cuts[i].num

C8_Witness ==
    /\ Matched
    /\ match_query.t = query_node.t /\ match_query.id # tmpl_result.tree.id
    /\ match_result.status = "cuts"
    /\ Len(match_result.cuts) >= 2

StrictlyIncreasing(cuts) ==
    \A i \in DOMAIN cuts : \A j \in DOMAIN cuts : i < j => cuts[i].num < cuts[j].num

\* C9: for two subtrees of equal root type the cuts of the template are in
\* strictly increasing order of num, every num is unique and lies in
\* [0, step_count + cut_count), and cuts.length = cut_count.
C9_CutNumbers ==
    (tmpl_result.status = "ok" /\ orig_node.t.type = query_node.t.type) =>
        /\ StrictlyIncreasing(tmpl_result.cuts)
        /\ \A i \in DOMAIN tmpl_result.cuts :
              /\ tmpl_result.cuts[i].num >= 0
              /\ tmpl_result.cuts[i].num <
                    tmpl_result.step_count + tmpl_result.cut_count
        /\ Len(tmpl_result.cuts) = tmpl_result.cut_count

C9_Witness ==
    /\ tmpl_result.status = "ok" /\ orig_node.t.type = query_node.t.type
    /\ tmpl_result.cut_count >= 2
    /\ tmpl_result.cuts[1].num > 0
    /\ tmpl_result.cuts[2].num = tmpl_result.step_count + tmpl_result.cut_count - 1

\* The query-side nodes that a node_type step matched against the origin.
SteppedPairs ==
    { p \in ComparedPairs(addChild_(NewComputeTemplate(orig_node, query_node),
                                     orig_node, query_node)) :
        p[1].t.type = p[2].t.type }

\* The nodes that the node and node_array substitutions of the cuts hold.
SubstitutedNodes ==
    UNION { SubtreeRefs(n) :
              n \in UNION { Range(tmpl_result.cuts[i].subst.nodes) :
                              i \in DOMAIN tmpl_result.cuts } }

FieldCarried(o, q, i) ==
    \/ /\ Len(o.t.fields) = Len(q.t.fields)
       /\ o.t.fields[i] = q.t.fields[i]
    \/ \E c \in DOMAIN tmpl_result.cuts :
          \/ /\ tmpl_result.cuts[c].subst.kind = "value"
             /\ tmpl_result.cuts[c].subst.value = q.t.fields[i]
          \/ /\ tmpl_result.cuts[c].subst.kind = "value_map"
             /\ tmpl_result.cuts[c].subst.value_map = q.t.fields

\* C10 as stated: the template of an origin and a query of the same type
\* carries enough to rebuild the query: every descendant of the query is
\* matched against the origin by a step or contained in a substitution, and
\* every field value of a matched node equals the origin's or is in a cut.
C10_AsStated ==
    (tmpl_result.status = "ok" /\ orig_node.t.type = query_node.t.type) =>
        /\ \A d \in SubtreeRefs(query_node) :
              \/ d \in SubstitutedNodes
              \/ \E p \in SteppedPairs : p[2] = d
        /\ \A p \in SteppedPairs :
              p[2] \in SubstitutedNodes \/
              \A i \in DOMAIN p[2].t.fields : FieldCarried(p[1], p[2], i)

(***************************************************************************)
(* Properties of the depth cache.                                          *)
(***************************************************************************)
\* The last min(k, width) of the items 1..k, oldest first.
LastPushed(k, Item(_)) ==
    [i \in 1..Min(k, width) |-> Item(k - Min(k, width) + i)]

\* C2 as stated: each ring buffer holds at most WIDTH = 64 entries and
\* after k pushes to one buffer it holds exactly the last min(k, 64) pushed
\* items, oldest first.
C2_AsStated ==
    \A d \in DOMAIN depth_caches :
        /\ Len(depth_caches[d].trees) <= width
        /\ Len(depth_caches[d].templates) <= width
        /\ depth_caches[d].trees = LastPushed(push_count[d].trees, RingTree)
        /\ depth_caches[d].templates = LastPushed(push_count[d].templates, RingTemplate)

Maximum(S) == CHOOSE m \in S : \A x \in S : x <= m

\* The benefits of the templates within two depths that match the query,
\* and of the trees of the query's type within one depth.
TemplateBenefits(dc, depth, tree) ==
    { dc[d + 1].templates[i].benefit :
        <<d, i>> \in { p \in ((depth - 2)..(depth + 2)) \X (1..width) :
                         /\ p[1] >= 0 /\ p[1] < Len(dc)
                         /\ p[2] <= Len(dc[p[1] + 1].templates)
                         /\ matchesTree(dc[p[1] + 1].templates[p[2]], tree).status
                               = "cuts" } }

TreeBenefits(dc, depth, tree) ==
    { LET t == ComputeTemplate(dc[d + 1].trees[i], tree)
      IN t.step_count - t.cut_count - 1 :
        <<d, i>> \in { p \in ((depth - 1)..(depth + 1)) \X (1..width) :
                         /\ p[1] >= 0 /\ p[1] < Len(dc)
                         /\ p[2] <= Len(dc[p[1] + 1].trees)
                         /\ dc[p[1] + 1].trees[p[2]].t.type = tree.t.type } }

Positive(S) == { b \in S : b > 0 }

Searched == search_result.kind \in {"none", "template", "tree"}

IsBegin(e) == e.when = "begin"

EventsOf(when, id) == { i \in DOMAIN events : events[i].when = when /\ events[i].id = id }

ProperDescendantId(a, d) == IsPrefix(a, d) /\ a # d

\* C4 as stated: with a visitor that never prunes and never overrides the
\* children, a finished walk has called begin exactly once for every node,
\* in pre-order, and end exactly once for every node, after the events of
\* all its descendants, also for nodes with an empty array branch.
C4_AsStated ==
    (walk_status = "done" /\ ~pruned) =>
        /\ LET begins == SelectSeq(events, IsBegin)
               nodes == PreOrder(doc)
           IN /\ Len(begins) = Len(nodes)
              /\ \A i \in DOMAIN nodes : begins[i].id = nodes[i].id
        /\ \A h \in SubtreeRefs(doc) :
              /\ Cardinality(EventsOf("end", h.id)) = 1
              /\ \A i \in DOMAIN events :
                    (events[i].when \in {"begin", "end"} /\ IsPrefix(h.id, events[i].id))
                        => \A j \in EventsOf("end", h.id) : i <= j

\* The callbacks that returned false.
FalseReturns == { i \in DOMAIN events : events[i].ret = "false" }

WalkOver == walk_status \in {"done", "aborted"}

\* The siblings that follow a node in the children of its parent.
FollowingSiblings(h) ==
    IF Len(h.id) < 3 THEN {}
    ELSE LET parent_id == SubSeq(h.id, 1, Len(h.id) - 2)
             bi == h.id[Len(h.id) - 1]
             ei == h.id[Len(h.id)]
         IN { c \in SubtreeRefs(doc) :
                /\ Len(c.id) = Len(h.id) /\ IsPrefix(parent_id, c.id)
                /\ \/ c.id[Len(c.id) - 1] > bi
                   \/ c.id[Len(c.id) - 1] = bi /\ c.id[Len(c.id)] > ei }

\* C5 as stated: when begin returns false for a node, only that node's
\* subtree is pruned: its children are not visited and it gets no end,
\* while its following siblings are still visited and every ancestor still
\* receives its end event.
C5_AsStated ==
    WalkOver =>
        \A i \in FalseReturns :
            events[i].when = "begin" =>
                /\ \A j \in DOMAIN events : ~ProperDescendantId(events[i].id, events[j].id)
                /\ EventsOf("end", events[i].id) = {}
                /\ \A h \in SubtreeRefs(doc) :
                      /\ (h.id = events[i].id) =>
                            \A sib \in FollowingSiblings(h) : EventsOf("begin", sib.id) # {}
                      /\ ProperDescendantId(h.id, events[i].id) => EventsOf("end", h.id) # {}

\* C5 amended: when begin returns false for a node, the walker ends the
\* whole walk: the node's children are not visited and the node gets no
\* end event, no further callback is made, so the node's following
\* siblings are not visited and no ancestor receives its end event.
C5_BeginFalseEndsWalk ==
    \A i \in FalseReturns :
        events[i].when = "begin" =>
            /\ i = Len(events)
            /\ walk_status = "aborted" /\ stack = <<>>
            /\ \A j \in DOMAIN events : ~ProperDescendantId(events[i].id, events[j].id)
            /\ EventsOf("end", events[i].id) = {}
            /\ \A h \in SubtreeRefs(doc) :
                  /\ (h.id = events[i].id) =>
                        \A sib \in FollowingSiblings(h) : EventsOf("begin", sib.id) = {}
                  /\ ProperDescendantId(h.id, events[i].id) => EventsOf("end", h.id) = {}

C5_Witness ==
    /\ walk_status = "aborted"
    /\ \E i \in FalseReturns :
          /\ events[i].when = "begin" /\ events[i].depth = 1
          /\ \E h \in SubtreeRefs(doc) :
                /\ h.id = events[i].id
                /\ FollowingSiblings(h) # {}
                /\ ChildRefs(h) # <<>>
          /\ \E j \in DOMAIN events : events[j].when = "end"

(***************************************************************************)
(* Properties of the compression walk.                                     *)
(***************************************************************************)
\* The trees the cache holds: those of the trees buffers and the origin
\* trees of the templates buffers.
CachedTrees ==
    UNION { Range(depth_caches[d].trees) \cup
            { depth_caches[d].templates[i].tree : i \in DOMAIN depth_caches[d].templates } :
            d \in DOMAIN depth_caches }

JustBegun == events # <<>> /\ events[Len(events)].when = "begin"

\* C1: when the driver queries the cache at begin(node), every tree in a
\* cache buffer has had its end event and is neither the node nor one of
\* its ancestors or descendants; a reference that search returns points to
\* such a tree and the assertion orig_node !== query_node never fails.
C1_CacheHoldsEndedTrees ==
    /\ walk_status # "thrown"
    /\ JustBegun =>
          /\ \A h \in CachedTrees :
                /\ EventsOf("end", h.id) # {}
                /\ ~IsPrefix(h.id, events[Len(events)].id)
                /\ ~IsPrefix(events[Len(events)].id, h.id)
          /\ search_result.kind = "tree" => search_result.prior_tree \in CachedTrees
          /\ search_result.kind = "template" =>
                search_result.prior_template.tree \in CachedTrees

C1_Witness ==
    /\ JustBegun
    /\ search_result.kind = "template"
    /\ Cardinality(CachedTrees) >= 3
    /\ events[Len(events)].depth >= 1

\* C6 as stated: in a finished compression walk every node that got begin
\* got end, and was appended at that end exactly once to the trees buffer
\* of its depth; a template was appended for it iff it was emitted as a
\* tree-match reference; and no template is left pending.
C6_AsStated ==
    walk_status = "done" =>
        /\ \A i \in DOMAIN events :
              events[i].when = "begin" =>
                  /\ EventsOf("end", events[i].id) # {}
                  /\ Cardinality({ k \in DOMAIN cache_log :
                                     /\ cache_log[k].kind = "tree"
                                     /\ cache_log[k].id = events[i].id
                                     /\ cache_log[k].depth = (Len(events[i].id) - 1) \div 2 })
                        = 1
                  /\ (events[i].ret = "tree") <=>
                        (\E k \in DOMAIN cache_log :
                            /\ cache_log[k].kind = "template"
                            /\ cache_log[k].id = events[i].id)
        /\ template_map = <<>>

(***************************************************************************)
(* Depth-first numbering.                                                  *)
(***************************************************************************)
NumberingDone == attrs # <<>>

\* The attrs entry of the node with this id.
AttrOf(id) == attrs[CHOOSE i \in DOMAIN attrs : attrs[i].id = id]

\* C11: for every lifted tree with N nodes, depthFirstNumber gives every
\* node one attrs entry, the numbers are a bijection onto 0..N-1 that
\* follows pre-order (the root is 0, a node's number is its position in the
\* pre-order sequence, branches in declared order and array elements by
\* index, every node's number smaller than its descendants'), and
\* attrs.depth is the length of the node's parent chain.
C11_PreOrderNumbering ==
    NumberingDone =>
        LET nodes == PreOrder(doc)
            N == Cardinality(SubtreeRefs(doc))
        IN /\ Len(attrs) = N /\ Len(nodes) = N
           /\ {attrs[i].id : i \in DOMAIN attrs} = {h.id : h \in SubtreeRefs(doc)}
           /\ {attrs[i].number : i \in DOMAIN attrs} = 0..(N - 1)
           /\ AttrOf(doc.id).number = 0
           /\ \A i \in DOMAIN nodes :
                 /\ AttrOf(nodes[i].id).number = i - 1
                 /\ AttrOf(nodes[i].id).depth = DepthOf(nodes[i])
           /\ \A a \in SubtreeRefs(doc), b \in SubtreeRefs(doc) :
                 (a.id # b.id /\ AncestorOrSelf(a, b))
                     => AttrOf(a.id).number < AttrOf(b.id).number

\* A numbered tree with an array branch of two elements, the first of which
\* has a child of its own: the second element's number is past that child's.
C11_Witness ==
    /\ NumberingDone
    /\ \E a \in SubtreeRefs(doc), b \in SubtreeRefs(doc) :
          /\ DepthOf(a) = 1 /\ DepthOf(b) = 1
          /\ AttrOf(b.id).number >= AttrOf(a.id).number + 3
          /\ \A c \in SubtreeRefs(doc) :
                DepthOf(c) = 1 => ~(AttrOf(a.id).number < AttrOf(c.id).number
                                    /\ AttrOf(c.id).number < AttrOf(b.id).number)

(***************************************************************************)
(* The string table, against the history of the calls made on it.          *)
(***************************************************************************)
\* The position of the last finish call (0 when there was none).
LastFinish ==
    IF \E i \in DOMAIN table_calls : table_calls[i].op = "finish"
    THEN CHOOSE i \in DOMAIN table_calls :
            /\ table_calls[i].op = "finish"
            /\ \A j \in DOMAIN table_calls : table_calls[j].op = "finish" => j <= i
    ELSE 0

AddsBefore(s, k) == {i \in 1..(k - 1) : table_calls[i] = TableCall("add", s)}

AddedBefore(k) == {s \in TableStrings : AddsBefore(s, k) # {}}

FirstAdd(s, k) == CHOOSE i \in AddsBefore(s, k) : \A j \in AddsBefore(s, k) : i <= j

\* The strings that the order "more uses first, then earlier insertion"
\* puts ahead of s, among the strings added before call k.
AheadOf(s, k) ==
    {t \in AddedBefore(k) :
        \/ Cardinality(AddsBefore(t, k)) > Cardinality(AddsBefore(s, k))
        \/ /\ Cardinality(AddsBefore(t, k)) = Cardinality(AddsBefore(s, k))
           /\ FirstAdd(t, k) < FirstAdd(s, k)}

JustFinished == table_calls # <<>> /\ LastFinish = Len(table_calls)

Rank(s) == MapGet(idx_map, s)

\* C12: after finish, whatever addString calls came before it, the ids are
\* a permutation of 0..|table|-1 over the distinct added strings, a string
\* used more often has the smaller id, and strings of equal use count are
\* ranked in the order of their first insertion.
C12_RanksByUseCount ==
    JustFinished =>
        LET k == Len(table_calls)
            added == AddedBefore(k)
        IN /\ {idx_map[i].key : i \in DOMAIN idx_map} = added
           /\ Len(idx_map) = Cardinality(added)
           /\ {Rank(s) : s \in added} = 0..(Cardinality(added) - 1)
           /\ \A s \in added : sorted_arr[Rank(s) + 1] = s
           /\ \A a \in added, b \in added :
                 /\ MapGet(use_counts, a) = Cardinality(AddsBefore(a, k))
                 /\ MapGet(use_counts, a) > MapGet(use_counts, b) => Rank(a) < Rank(b)
                 /\ (MapGet(use_counts, a) = MapGet(use_counts, b)
                     /\ FirstAdd(a, k) < FirstAdd(b, k)) => Rank(a) < Rank(b)

\* A finished table where the string inserted second is used more often
\* than the first, and a third string ties with the first.
C12_Witness ==
    /\ JustFinished
    /\ \E a \in TableStrings, b \in TableStrings :
          /\ a # b
          /\ AddsBefore(a, Len(table_calls)) # {} /\ AddsBefore(b, Len(table_calls)) # {}
          /\ FirstAdd(a, Len(table_calls)) < FirstAdd(b, Len(table_calls))
          /\ MapGet(use_counts, b) > MapGet(use_counts, a)
          /\ Rank(b) = 0 /\ Rank(a) = 1

Looked == lookup_result.status # "none"

\* C13: lookup(s) returns the assigned id exactly when s was added before
\* the (last) finish; for a string never added, added only after finish, or
\* looked up before any finish, it fails, and the table is as it was.
C13_LookupKnowsFinished ==
    Looked =>
        LET s == lookup_result.arg
            known == LastFinish > 0 /\ s \in AddedBefore(LastFinish)
        IN /\ lookup_result.status = "ok" <=> known
           /\ lookup_result.status = "throw" <=> ~known
           /\ known => lookup_result.id = Cardinality(AheadOf(s, LastFinish))

\* lookup changes nothing of the table.
C13_LookupReadsOnly ==
    [][lookup_result' # NoLookup => UNCHANGED <<use_counts, sorted_arr, idx_map>>]_vars

\* A failed lookup of a string added only after finish, next to a
\* successful lookup's precondition: another string was added before it.
C13_Witness ==
    /\ Looked /\ lookup_result.status = "throw"
    /\ LastFinish > 0
    /\ AddedBefore(LastFinish) # {}
    /\ lookup_result.arg \notin AddedBefore(LastFinish)
    /\ \E i \in DOMAIN table_calls :
          i > LastFinish /\ table_calls[i] = TableCall("add", lookup_result.arg)

(***************************************************************************)
(* The encoder's primitives.                                               *)
(***************************************************************************)
\* The bytes the last call appended.
Written == SubSeq(bytes, enc_call.before + 1, Len(bytes))

LastCall(op) == enc_call.op = op

\* The unsigned LEB128 encoding of a number of 0 .. 2^32 - 1: the septets
\* from the least significant on, the continuation bit 0x80 on all bytes
\* but the last.  After the first septet the rest is below 2^25.
RECURSIVE Leb128Int(_)
Leb128Int(n) ==
    IF n < 128 THEN <<n>> ELSE <<(n % 128) + 128>> \o Leb128Int(n \div 128)

Leb128(v) ==
    IF v.hi = 0 /\ v.lo < 128 THEN <<v.lo>>
    ELSE <<(v.lo % 128) + 128>> \o Leb128Int(v.hi * 512 + v.lo \div 128)

\* Reading an unsigned LEB128 number: septets are taken up to and with the
\* first byte that has no continuation bit.  Gives the number read and the
\* count of bytes taken (0 when the bytes end inside the number).
RECURSIVE DecodeRest(_, _)
DecodeRest(bs, i) ==
    IF i > Len(bs) THEN [value |-> 0, taken |-> 0, ok |-> FALSE]
    ELSE IF bs[i] < 128 THEN [value |-> bs[i], taken |-> 1, ok |-> TRUE]
    ELSE LET Shifted(r) == [value |-> r.value * 128 + (bs[i] % 128),
                            taken |-> r.taken + 1, ok |-> r.ok /\ r.value < 33554432]
         IN Shifted(DecodeRest(bs, i + 1))

Decode(bs) ==
    IF bs = <<>> THEN [value |-> W(0), taken |-> 0, ok |-> FALSE]
    ELSE IF bs[1] < 128 THEN [value |-> W(bs[1]), taken |-> 1, ok |-> TRUE]
    ELSE LET Joined(r) ==
                 [value |-> Wide(r.value \div 512, (r.value % 512) * 128 + (bs[1] % 128)),
                  taken |-> r.taken + 1, ok |-> r.ok]
         IN Joined(DecodeRest(bs, 2))

InVarUintRange(v) == WideLe(W(0), v) /\ WideLe(v, Wide(65535, 65535))

\* C14 as the claim states it: for every v of 0 .. 2^32 - 1 writeVarUint
\* writes the unsigned LEB128 encoding of v, and decoding the written bytes
\* gives back v, also for v >= 2^31.
C14_AsStated ==
    (LastCall("writeVarUint") /\ InVarUintRange(enc_call.args.num)) =>
        /\ enc_call.status = "ok"
        /\ Written = Leb128(enc_call.args.num)
        /\ Decode(Written).ok
        /\ Decode(Written).taken = Len(Written)
        /\ Decode(Written).value = enc_call.args.num

\* Below 2^31 the written bytes are the LEB128 encoding.
C14_Below31Bits ==
    (LastCall("writeVarUint") /\ InVarUintRange(enc_call.args.num)
     /\ enc_call.args.num.hi < 32768) =>
        /\ enc_call.status = "ok"
        /\ Written = Leb128(enc_call.args.num)
        /\ Decode(Written).ok
        /\ Decode(Written).taken = Len(Written)
        /\ Decode(Written).value = enc_call.args.num

\* From 2^31 on two bytes are written, whatever the value.
C14_From31Bits ==
    (LastCall("writeVarUint") /\ InVarUintRange(enc_call.args.num)
     /\ enc_call.args.num.hi >= 32768) =>
        /\ Len(Written) = 2
        /\ Written # Leb128(enc_call.args.num)

(***************************************************************************)
(* Values on the wire.                                                     *)
(***************************************************************************)
Ok == enc_call.status = "ok"

\* The bytes of the 32-bit pattern of a number, least significant first.
PatternBytes(w) ==
    << w.lo % 256, w.lo \div 256, (w.hi % 65536) % 256, (w.hi % 65536) \div 256 >>

\* The least count of bytes that holds the 32-bit pattern.
MinWidth(w) ==
    IF PatternBytes(w)[4] # 0 THEN 4
    ELSE IF PatternBytes(w)[3] # 0 THEN 3
    ELSE IF PatternBytes(w)[2] # 0 THEN 2 ELSE 1

\* A tagged number on the wire: the tag ORed with the width less one, then
\* the pattern's bytes up to the width.
TaggedBytes(tag, w) == <<tag + (MinWidth(w) - 1)>> \o SubSeq(PatternBytes(w), 1, MinWidth(w))

IsPrimitive(val) ==
    \/ val.kind \in {"null", "boolean"}
    \/ val.kind = "integer" /\ isNanoInt(val.num)

\* The code of the primitive tag table.
PrimitiveCode(val) ==
    IF val.kind = "null" THEN 1
    ELSE IF val.kind = "boolean" THEN (IF val.b THEN 3 ELSE 2)
    ELSE Int32(val.num) + 5

\* C15 as the claim states it: writeValue emits exactly one byte for null
\* (0x01), false (0x02), true (0x03) and every integer v of -1..10 (v + 5),
\* and no value starts with the end marker 0x00.
C15_AsStated ==
    LastCall("writeValue") =>
        /\ IsPrimitive(enc_call.args.val) =>
              Ok /\ Written = <<PrimitiveCode(enc_call.args.val)>>
        /\ (Ok /\ Written # <<>>) => Written[1] # 0

\* The nano integers are written as the table has them.
C15_NanoInts ==
    (LastCall("writeValue") /\ enc_call.args.val.kind = "integer"
     /\ isNanoInt(enc_call.args.val.num)) =>
        Ok /\ Written = <<Int32(enc_call.args.val.num) + 5>>

\* null, false and true are written one code short of the table.
C15_OneShort ==
    (LastCall("writeValue") /\ enc_call.args.val.kind \in {"null", "boolean"}) =>
        Ok /\ Written = <<PrimitiveCode(enc_call.args.val) - 1>>

\* C16 as the claim states it: writeTaggedNum(tag, n) writes the argument
\* tag ORed with byte_count - 1, then byte_count little-endian bytes of n;
\* so a string is written with a leading byte of 0x14..0x17 and then its
\* table id, an array of 7 or more elements with a leading byte of
\* 0x28..0x2B, both apart from the integer tags 0x10..0x13.
C16_AsStated ==
    /\ (LastCall("writeTaggedNum") /\ Ok) =>
          Written = TaggedBytes(enc_call.args.tag, enc_call.args.num)
    /\ (LastCall("writeValue") /\ Ok /\ enc_call.args.val.kind = "string") =>
          /\ Written[1] \in 20..23
          /\ Written = TaggedBytes(STR_TAG, W(MapGet(string_table.idx_map,
                                                     enc_call.args.val.str)))
    /\ (LastCall("writeValue") /\ Ok /\ enc_call.args.val.kind = "array"
        /\ Len(enc_call.args.val.elems) >= 7) =>
          Written[1] \in 40..43

\* With the integer tag as argument the first byte is the tag ORed with
\* the width, and the bytes are the number's.
C16_IntTag ==
    (LastCall("writeTaggedNum") /\ Ok /\ enc_call.args.tag = INT_TAG) =>
        Written = TaggedBytes(INT_TAG, enc_call.args.num)

\* Whatever the tag argument, the first byte is the integer tag's.
C16_AlwaysIntTag ==
    (LastCall("writeTaggedNum") /\ Ok) =>
        Written = TaggedBytes(INT_TAG, enc_call.args.num)

OtherInteger(val) == val.kind = "integer" /\ ~isNanoInt(val.num)

\* C17 as the claim states it: writeValue takes every integer of
\* -2^31 .. 2^32 - 1 outside the nano range and writes it as a tagged int
\* of the least width; none of them raises an error.
C17_AsStated ==
    (LastCall("writeValue") /\ OtherInteger(enc_call.args.val)
     /\ WideLe(Wide(-32768, 0), enc_call.args.val.num)
     /\ WideLe(enc_call.args.val.num, Wide(65535, 65535))) =>
        Ok /\ Written = TaggedBytes(INT_TAG, enc_call.args.val.num)

\* C17: writeValue takes every integer of -2^31 .. 2^31 - 1 outside the
\* nano range and writes 0x10 | (width - 1) and the least count of
\* little-endian bytes that holds its 32-bit two's complement pattern (four
\* for a negative integer); an integer of 2^31 .. 2^32 - 1 fails the
\* assertion of writeTaggedNum, with no byte written.
C17_Int32Range ==
    (LastCall("writeValue") /\ OtherInteger(enc_call.args.val)
     /\ WideLe(Wide(-32768, 0), enc_call.args.val.num)
     /\ WideLe(enc_call.args.val.num, Wide(65535, 65535))) =>
        IF WideLe(enc_call.args.val.num, Wide(32767, 65535))
        THEN Ok /\ Written = TaggedBytes(INT_TAG, enc_call.args.val.num)
        ELSE ~Ok /\ Written = <<>>

\* A negative integer written with four bytes after another value.
C17_Witness ==
    /\ LastCall("writeValue") /\ Ok /\ enc_call.before > 0
    /\ enc_call.args.val = IntVal(W(-2))
    /\ Written = <<19, 254, 255, 255, 255>>

\* C19 as the claim states it: writeDirectNode writes first the varuint 2
\* and then only the character byte exactly when the node is an Identifier
\* whose name is one ASCII character; for every other node it writes the
\* type's code, 3 or more, then the field values in declared order and no
\* child bytes.
RawIdent(node) ==
    /\ node.type = "Identifier"
    /\ Len(node.fields[1].value.str) = 1

C19_AsStated ==
    LastCall("writeDirectNode") =>
        IF RawIdent(enc_call.args.node)
        THEN Ok /\ Written = <<RAW_IDENT_TYPE_CODE>>
                                  \o CharCodes(enc_call.args.node.fields[1].value.str)
        ELSE (\A i \in DOMAIN enc_call.args.node.fields :
                 enc_call.args.node.fields[i].value.kind # "string"
                 \/ MapHas(string_table.idx_map,
                           enc_call.args.node.fields[i].value.str))
             => /\ Ok /\ Written # <<>> /\ Written[1] >= FIRST_NODE_TYPE_CODE
                /\ Written[1] < 128
                /\ SubSeq(Written, 2, Len(Written))
                     = WriteFields(Encoder(<<>>, "ok"), string_table,
                                   enc_call.args.node.fields).bytes

\* Every writeDirectNode call fails with nothing written.
C19_AlwaysThrows ==
    LastCall("writeDirectNode") => ~Ok /\ Written = <<>>

(***************************************************************************)
(* References on the wire.                                                 *)
(***************************************************************************)
IsRefCall == LastCall("writeSubtreeRef") \/ LastCall("writeTemplateRef")

RefInRange ==
    /\ enc_call.args.rel_depth >= -63 /\ enc_call.args.rel_depth <= 63
    /\ enc_call.args.rev_index >= 0 /\ enc_call.args.rev_index <= 255

RefCode == IF LastCall("writeSubtreeRef") THEN 0 ELSE 1

\* The reference code, the low 8 bits of the delta and the index byte.
RefHead == <<RefCode, enc_call.args.rel_depth % 256, enc_call.args.rev_index>>

\* C18 as the claim states it: writeSubtreeRef and writeTemplateRef fail,
\* appending no byte, whenever the depth delta is outside -63..63 or the
\* reverse index is outside 0..255, negative indexes included; for
\* parameters in range they write the reference code, the low 8 bits of
\* the delta and the reverse index byte.
C18_AsStated ==
    IsRefCall =>
        IF RefInRange
        THEN Ok /\ Len(Written) >= 3 /\ SubSeq(Written, 1, 3) = RefHead
        ELSE ~Ok /\ Written = <<>>

\* All of it but the negative reverse indexes.
C18_ButNegativeIndex ==
    (IsRefCall /\ enc_call.args.rev_index >= 0) =>
        IF RefInRange
        THEN Ok /\ Len(Written) >= 3 /\ SubSeq(Written, 1, 3) = RefHead
        ELSE ~Ok /\ Written = <<>>

\* A negative reverse index is written as its low 8 bits.
C18_NegativeIndexWritten ==
    (IsRefCall /\ enc_call.args.rev_index < 0
     /\ enc_call.args.rel_depth >= -63 /\ enc_call.args.rel_depth <= 63) =>
        Ok /\ Written[3] = enc_call.args.rev_index % 256

(***************************************************************************)
(* A repeated subtree.                                                     *)
(***************************************************************************)
\* The trees and the templates the cache holds, over all depths.
AllTrees == Flatten([d \in DOMAIN depth_caches |-> depth_caches[d].trees])

AllTemplates == Flatten([d \in DOMAIN depth_caches |-> depth_caches[d].templates])

\* The cache holds one tree and nothing else, at the depth of the last
\* search, and the query of that search is another node, identical to it.
RepeatOfOnlyTree ==
    /\ Searched \/ search_result.aborted
    /\ Len(AllTrees) = 1 /\ AllTemplates = <<>>
    /\ search_depth < Len(depth_caches)
    /\ depth_caches[search_depth + 1].trees = AllTrees
    /\ AllTrees[1].t = search_query.t
    /\ AllTrees[1].id # search_query.id

\* C20: when the cache holds exactly one tree A, pushed at depth d, and the
\* query at depth d is a distinct node structurally identical to A, search
\* returns a tree match with depth delta 0, reverse index 0, no cuts and
\* benefit = step_count - 1 > 0.
C20_RepeatIsTreeMatch ==
    RepeatOfOnlyTree =>
        /\ search_result.found /\ search_result.kind = "tree"
        /\ search_result.depth_delta = 0 /\ search_result.rev_i = 0
        /\ search_result.prior_tree = AllTrees[1]
        /\ search_result.cuts = <<>>
        /\ search_result.benefit = search_result.step_count - 1
        /\ search_result.benefit > 0

C20_Witness ==
    /\ RepeatOfOnlyTree
    /\ search_result.kind = "tree"
    /\ search_depth = 2
    /\ search_query.t = ReturnNull

\* With a template in the cache as well, the repeat may come back as a
\* template match instead.
C20_TemplateMayWin ==
    /\ Searched
    /\ Len(AllTrees) = 1
    /\ search_depth < Len(depth_caches)
    /\ depth_caches[search_depth + 1].trees = AllTrees
    /\ AllTrees[1].t = search_query.t
    /\ AllTrees[1].id # search_query.id
    /\ search_result.kind = "template"

(***************************************************************************)
(* The cut list of a tree reference on the wire.                           *)
(***************************************************************************)
\* The bytes between the three leading bytes and the last one.
CutBytes == SubSeq(Written, 4, Len(Written) - 1)

\* What writeSubtreeRef writes for the delta and index of the last call and
\* another cut list.
RefBytesOf(cuts) ==
    writeSubtreeRef(Encoder(<<>>, "ok"), enc_call.args.rel_depth,
                    enc_call.args.rev_index, cuts).bytes

SmallCuts(cuts) == \A i \in DOMAIN cuts : cuts[i] >= 0 /\ cuts[i] < 255

SubtreeRefWritten == LastCall("writeSubtreeRef") /\ Ok

\* C30 as the claim states it: the bytes written by writeSubtreeRef
\* determine its cut list (two different lists of cut numbers never give
\* the same bytes for one depth delta and reverse index), and no written
\* cut byte equals the 0xFF terminator, cut numbers >= 255 included.
C30_AsStated ==
    SubtreeRefWritten =>
        /\ \A other \in CutInputs :
              other # enc_call.args.cuts => RefBytesOf(other) # Written
        /\ \A i \in DOMAIN CutBytes : CutBytes[i] # 255

\* It is so among the lists of cut numbers below 255.
C30_BelowTerminator ==
    (SubtreeRefWritten /\ SmallCuts(enc_call.args.cuts)) =>
        /\ \A other \in CutInputs :
              (other # enc_call.args.cuts /\ SmallCuts(other))
                 => RefBytesOf(other) # Written
        /\ \A i \in DOMAIN CutBytes : CutBytes[i] # 255

\* A cut number from 255 on is written as its low 8 bits.
C30_Truncated ==
    SubtreeRefWritten =>
        /\ Len(CutBytes) = Len(enc_call.args.cuts)
        /\ \A i \in DOMAIN CutBytes : CutBytes[i] = enc_call.args.cuts[i] % 256

(***************************************************************************)
(* What Template.matchesTree returns.                                      *)
(***************************************************************************)
\* The computation r agrees with the template in step_count, cut_count,
\* the number of cuts and every cut number.
Agrees(r, tmpl) ==
    /\ r.status = "ok"
    /\ r.step_count = tmpl.step_count
    /\ r.cut_count = tmpl.cut_count
    /\ Len(r.cuts) = Len(tmpl.cuts)
    /\ \A i \in DOMAIN r.cuts : r.cuts[i].num = tmpl.cuts[i].num

MatchIsAsComputed(r) ==
    IF Agrees(r, tmpl_result)
    THEN match_result.status = "cuts" /\ match_result.cuts = r.cuts
    ELSE match_result.status = "false"

\* C23 as the claim states it: template.matches(query) returns the cuts
\* of compute_template(template.tree, query) iff that computation agrees
\* with the template in step_count, cut_count, cuts.length and every
\* cuts[i].num, and returns no-match in every other case.
C23_AsStated ==
    Matched => MatchIsAsComputed(ComputeTemplate(tmpl_result.tree, match_query))

\* C23 amended: so it is for every query that is not the node object
\* template.tree; for that one matches neither returns cuts nor no-match,
\* the ComputeTemplate constructor's assertion aborts the call.
C23_DistinctQuery ==
    Matched =>
        IF match_query.id = tmpl_result.tree.id
        THEN match_result.status = "abort"
        ELSE MatchIsAsComputed(ComputeTemplate(tmpl_result.tree, match_query))

\* A query that is refused for its cut count alone.
C23_Witness ==
    /\ Matched /\ match_query.id # tmpl_result.tree.id
    /\ match_result.status = "false"
    /\ ComputeTemplate(tmpl_result.tree, match_query).step_count = tmpl_result.step_count

C23_WitnessCuts ==
    /\ Matched /\ match_query.id # tmpl_result.tree.id
    /\ match_result.status = "cuts" /\ Len(match_result.cuts) >= 1

\* matches is a read of the template.
C23_TemplateUnchanged == [][MatchesTree => UNCHANGED tmpl_result]_vars

(***************************************************************************)
(* Value cuts.                                                             *)
(***************************************************************************)
\* The pairs that compute() takes off child_queue, in the order it does.
RECURSIVE ComparedSeq(_)
ComparedSeq(ct) ==
    IF ct.child_queue = <<>> THEN <<>>
    ELSE LET pair == Head(ct.child_queue)
         IN <<pair>> \o ComparedSeq(matchNodes_([ct EXCEPT !.child_queue = Tail(@)],
                                                 pair[1], pair[2]))

ComparedOfRun ==
    ComparedSeq(addChild_(NewComputeTemplate(orig_node, query_node),
                          orig_node, query_node))

SameFieldNames(o, q) ==
    o.t.type = q.t.type /\ SortNames(FieldKeys(o)) = SortNames(FieldKeys(q))

\* The fields of q, in sorted name order, whose value is not the one o has.
RECURSIVE DifferingFields(_, _, _, _)
DifferingFields(keys, i, o, q) ==
    IF i > Len(keys) THEN <<>>
    ELSE (IF FieldGet(o, keys[i]).value # FieldGet(q, keys[i]).value
          THEN <<FieldGet(q, keys[i])>> ELSE <<>>)
         \o DifferingFields(keys, i + 1, o, q)

ExpectedValueCuts(run) ==
    Flatten([k \in DOMAIN run |->
               IF SameFieldNames(run[k][1], run[k][2])
               THEN DifferingFields(SortNames(FieldKeys(run[k][1])), 1,
                                    run[k][1], run[k][2])
               ELSE <<>>])

IsValueCut(cut) == cut.reason.tag = "value"

\* The query values that the value cuts of the template substitute.
ValueCuts ==
    LET vc == SelectSeq(tmpl_result.cuts, IsValueCut)
    IN [i \in DOMAIN vc |-> vc[i].subst.value]

\* The children of a compared pair of equal type, field names and branch
\* names are compared as well, whatever the values of the fields.
ChildrenCompared(o, q, run) ==
    \A bo \in DOMAIN o.t.children :
        LET bq == ChildIndex(q, o.t.children[bo].name)
        IN (/\ o.t.children[bo].kind # "null" /\ q.t.children[bq].kind # "null"
            /\ Len(o.t.children[bo].elems) = Len(q.t.children[bq].elems))
           => \A i \in DOMAIN o.t.children[bo].elems :
                 <<ChildRef(o, bo, i), ChildRef(q, bq, i)>> \in Range(run)

\* The query is the origin with the value of one field replaced.
OneFieldDiffers(i) ==
    /\ i \in DOMAIN orig_node.t.fields
    /\ Len(query_node.t.fields) = Len(orig_node.t.fields)
    /\ query_node.t.fields[i].name = orig_node.t.fields[i].name
    /\ query_node.t.fields[i].value # orig_node.t.fields[i].value
    /\ query_node.t =
          [orig_node.t EXCEPT !.fields[i].value = query_node.t.fields[i].value]

\* C24: for origin and query nodes of one type and one field-name set,
\* compute_template emits exactly one value cut per field whose values are
\* not equal, in sorted field-name order, and goes on to compare the
\* remaining fields, the branch names and the children; two nodes that
\* differ only in one field value yield exactly one cut, whose
\* substitution is the query's value of that field.
C24_ValueCuts ==
    (Computed /\ tmpl_result.status = "ok") =>
        /\ LET Holds(run) ==
                   /\ ValueCuts = ExpectedValueCuts(run)
                   /\ \A k \in DOMAIN run :
                         (/\ SameFieldNames(run[k][1], run[k][2])
                          /\ SortNames(ChildKeys(run[k][1]))
                                = SortNames(ChildKeys(run[k][2])))
                         => ChildrenCompared(run[k][1], run[k][2], run)
           IN Holds(ComparedOfRun)
        /\ \A i \in 1..2 :
              OneFieldDiffers(i) =>
                 /\ Len(tmpl_result.cuts) = 1
                 /\ tmpl_result.cuts[1].subst = SubstValue(query_node.t.fields[i])

\* Two value cuts at the root and a third one at its child.
C24_Witness ==
    /\ Computed /\ tmpl_result.status = "ok"
    /\ orig_node.t = UnaryExpression("!", FALSE, Identifier("a"))
    /\ query_node.t = UnaryExpression("-", TRUE, Identifier("b"))
    /\ Len(ValueCuts) = 3

(***************************************************************************)
(* Where search takes its candidates from.                                 *)
(***************************************************************************)
SearchMade == search_result # NoSearch

\* The deltas in the order they are probed, and the place of one in it.
ProbeOrder == <<0, -1, 1, -2, 2>>

ProbePlace(delta) == CHOOSE k \in DOMAIN ProbeOrder : ProbeOrder[k] = delta

\* Probe (d1, r1) is not after probe (d2, r2).
NotAfter(d1, r1, d2, r2) ==
    \/ ProbePlace(d1) < ProbePlace(d2)
    \/ ProbePlace(d1) = ProbePlace(d2) /\ r1 <= r2

\* The buffer a delta names, empty when the depth is not a cache depth.
BufferAt(delta, kind) ==
    LET d == search_depth + delta
    IN IF d < 0 \/ d >= Len(depth_caches) THEN <<>>
       ELSE IF kind = "template" THEN depth_caches[d + 1].templates
       ELSE depth_caches[d + 1].trees

\* The r-th newest entry of a buffer, r from 0.
Newest(buf, r) == buf[Len(buf) - r]

\* The benefit of the r-th newest entry at delta as a candidate of the
\* kind for the last query, or -1 when it is none.
CandidateBenefit(delta, kind, r) ==
    IF kind = "template"
    THEN IF matchesTree(Newest(BufferAt(delta, kind), r), search_query).status = "cuts"
         THEN Newest(BufferAt(delta, kind), r).benefit ELSE -1
    ELSE IF Newest(BufferAt(delta, kind), r).t.type = search_query.t.type
         THEN LET Benefit(t) == t.step_count - t.cut_count - 1
              IN Benefit(ComputeTemplate(Newest(BufferAt(delta, kind), r), search_query))
         ELSE -1

DeltasOf(kind) == IF kind = "template" THEN {0, -1, 1, -2, 2} ELSE {0, -1, 1}

\* C25: a template candidate comes only from the templates at depth + delta
\* with delta in {0, -1, +1, -2, +2}, a tree candidate only from the trees
\* of the query's type at depth + delta with delta in {0, -1, +1}; a probed
\* depth below 0 or not below the number of cache entries gives no
\* candidate and no error; within a depth the entries are examined newest
\* first, reverse index r denoting the r-th newest entry.
C25_CandidateSources ==
    SearchMade =>
        /\ search_result.kind # "abort"
        /\ search_result.found =>
              LET r   == search_result
                  buf == BufferAt(r.depth_delta, r.kind)
              IN /\ r.depth_delta \in DeltasOf(r.kind)
                 /\ r.rev_i >= 0 /\ r.rev_i < Len(buf)
                 /\ r.kind = "template" => Newest(buf, r.rev_i) = r.prior_template
                 /\ r.kind = "tree" =>
                       /\ Newest(buf, r.rev_i) = r.prior_tree
                       /\ r.prior_tree.t.type = search_query.t.type
                 /\ CandidateBenefit(r.depth_delta, r.kind, r.rev_i) = r.benefit
                 /\ \A delta \in DeltasOf(r.kind) :
                       \A k \in 0..(Len(BufferAt(delta, r.kind)) - 1) :
                          CandidateBenefit(delta, r.kind, k) = r.benefit
                             => NotAfter(r.depth_delta, r.rev_i, delta, k)

\* Two trees of equal benefit in one buffer, the search probing a depth
\* below 0: the newer one is returned, as reverse index 0.
C25_Witness ==
    /\ SearchMade /\ search_depth = 0
    /\ search_result.kind = "tree" /\ search_result.rev_i = 0
    /\ Len(BufferAt(search_result.depth_delta, "tree")) = 2
    /\ CandidateBenefit(search_result.depth_delta, "tree", 1) = search_result.benefit

(***************************************************************************)
(* What search and the pushes change of the cache.                         *)
(***************************************************************************)
\* The entry of depth d - 1 before the step, empty if there was none.
EntryBefore(d) == IF d \in DOMAIN depth_caches THEN depth_caches[d] ELSE NoEntry

\* The buffers that the step changed, as <<place, kind>>.
ChangedBuffers ==
    { <<d, "trees">> : d \in { e \in DOMAIN depth_caches' :
                                 depth_caches'[e].trees # EntryBefore(e).trees } }
    \cup
    { <<d, "templates">> : d \in { e \in DOMAIN depth_caches' :
                                     depth_caches'[e].templates
                                        # EntryBefore(e).templates } }

\* A step of the depth named: the entries up to it exist afterwards, no
\* entry is dropped, and none beyond it is made.
EntriesUpTo(depth) ==
    Len(depth_caches') = IF Len(depth_caches) > depth THEN Len(depth_caches)
                         ELSE depth + 1

\* C29: search(depth, query) leaves the cache as it was, the number of
\* entries and every trees and templates buffer, also for a depth beyond
\* the cache; push_tree(d, n) and push_template(d, t) change only the one
\* buffer they name at depth d, apart from making empty entries for the
\* depths up to d.
C29_CacheFrame ==
    [][ /\ search_result' # NoSearch => depth_caches' = depth_caches
        /\ \A depth \in PushDepths :
              /\ push_count' = [CountEntry(push_count, depth)
                                  EXCEPT ![depth + 1].trees = @ + 1]
                    => /\ ChangedBuffers = {<<depth + 1, "trees">>}
                       /\ EntriesUpTo(depth)
              /\ push_count' = [CountEntry(push_count, depth)
                                  EXCEPT ![depth + 1].templates = @ + 1]
                    => /\ ChangedBuffers = {<<depth + 1, "templates">>}
                       /\ EntriesUpTo(depth) ]_vars

\* A search at a depth the cache has no entry for, after a push that made
\* the entries of the depths 0 to 2.
C29_Witness ==
    /\ SearchMade /\ search_depth >= Len(depth_caches)
    /\ Len(depth_caches) = 3
    /\ depth_caches[1] = NoEntry /\ depth_caches[2] = NoEntry
    /\ Len(depth_caches[3].trees) = 1

(***************************************************************************)
(* The references search returns.                                          *)
(***************************************************************************)
\* The reference writer of the encoder takes the pair of the result.
WriterTakes(r) ==
    IF r.kind = "tree"
    THEN writeSubtreeRef(Encoder(<<>>, "ok"), r.depth_delta, r.rev_i, <<>>).status = "ok"
    ELSE writeTemplateRef(Encoder(<<>>, "ok"), r.depth_delta, r.rev_i).status = "ok"

MatchedWithCuts == Matched /\ match_result.status = "cuts"

\* C26 as the claim states it: if template.matches(query) returns cuts,
\* then for every i the returned cut i has the same reason and the same
\* substitution kind (value, value_map, node or node_array) as the
\* template's own cut i.
C26_AsStated ==
    MatchedWithCuts =>
        \A i \in DOMAIN match_result.cuts :
            /\ match_result.cuts[i].reason = tmpl_result.cuts[i].reason
            /\ match_result.cuts[i].subst.kind = tmpl_result.cuts[i].subst.kind

\* The kinds alone.
C26_SameKind ==
    MatchedWithCuts =>
        \A i \in DOMAIN match_result.cuts :
            match_result.cuts[i].subst.kind = tmpl_result.cuts[i].subst.kind

\* The category of the reason alone.
C26_SameTag ==
    MatchedWithCuts =>
        \A i \in DOMAIN match_result.cuts :
            match_result.cuts[i].reason.tag = tmpl_result.cuts[i].reason.tag

\* The numbers do agree.
C26_SameNumbers ==
    MatchedWithCuts =>
        /\ Len(match_result.cuts) = Len(tmpl_result.cuts)
        /\ \A i \in DOMAIN match_result.cuts :
              match_result.cuts[i].num = tmpl_result.cuts[i].num

(***************************************************************************)
(* The compression walk ends.                                              *)
(***************************************************************************)
\* The nodes that an activation of the helper walks into, with their place
\* in its children list.
WalkedChildren(f) ==
    { <<k, i>> \in (DOMAIN f.children) \X (1..(MaxBody + MaxArgs + 2)) :
         /\ i <= Len(f.children[k].chs)
         /\ ~f.children[k].chs[i].isnull }

ChildAt(f, p) == f.children[p[1]].chs[p[2]]

\* The children of a begun activation are proper descendants of its node,
\* no one of them inside another.
ChildrenBelow(f) ==
    /\ \A p \in WalkedChildren(f) : ProperDescendantId(f.node.id, ChildAt(f, p).id)
    /\ \A p1 \in WalkedChildren(f), p2 \in WalkedChildren(f) :
          p1 # p2 => ~IsPrefix(ChildAt(f, p1).id, ChildAt(f, p2).id)

\* The activation of the node that has just got begin.
BegunFrames ==
    { k \in DOMAIN stack : stack[k].begun /\ stack[k].node.id = events[Len(events)].id }

\* C27: the compression walk terminates on every finite lifted tree: each
\* override list the driver returns from begin(node) holds only proper
\* descendants of node, pairwise non-overlapping (a match of positive
\* benefit never has the query node itself as a substitution), so no node
\* receives begin more than once; the walk has a next callback until it
\* is over and makes no more callbacks than three per node.
C27_WalkTerminates ==
    /\ walk_status # "thrown"
    /\ \A k \in DOMAIN stack : stack[k].begun => ChildrenBelow(stack[k])
    /\ (JustBegun /\ search_result.found) =>
          /\ \A k \in BegunFrames :
                stack[k].children = OverrideChildren(search_result.cuts)
          /\ \A c \in DOMAIN search_result.cuts :
                \A n \in Range(search_result.cuts[c].subst.nodes) :
                   ProperDescendantId(search_query.id, n.id)
    /\ \A i \in DOMAIN events : \A j \in DOMAIN events :
          (i < j /\ events[i].when = "begin" /\ events[j].when = "begin")
             => events[i].id # events[j].id
    /\ Len(events) <= 3 * Len(PreOrder(doc))
    /\ walk_status = "running" => (AtBegin \/ AtEmptyArray \/ AtEnd) /\ stack # <<>>

\* A finished walk in which a begin returned an override list, and the
\* node in it got its begin in turn.
C27_Witness ==
    /\ walk_status = "done"
    /\ \E i \in DOMAIN events :
          /\ events[i].when = "begin" /\ events[i].ret \in {"tree", "template"}
          /\ \E j \in DOMAIN events :
                j > i /\ events[j].when = "begin"
                      /\ ProperDescendantId(events[i].id, events[j].id)

(***************************************************************************)
(* The lifts against the conditions on the raw tree.                       *)
(***************************************************************************)
\* The raw nodes right below a raw node: the objects that are the value
\* of a declared branch or an element of its array.
RawChildren(raw) ==
    IF ~IsRegistered(raw.type) THEN {}
    ELSE LET type == TypeOf(raw.type)
         IN UNION { LET v == GetProp(raw, type.branches[i].name)
                    IN IF v.kind = "node" THEN {v.elems[1]}
                       ELSE IF v.kind = "array"
                       THEN { v.elems[k].elems[1] :
                                k \in { j \in DOMAIN v.elems : v.elems[j].kind = "node" } }
                       ELSE {} :
                    i \in { j \in DOMAIN type.branches : HasProp(raw, type.branches[j].name) } }

AllInfos(type) == type.fields \o type.branches \o type.del_fields \o type.del_branches

Required(type) == SelectSeq(type.fields \o type.branches, LAMBDA f : ~f.opt)

\* The four conditions on one node.  both is whether the array-ness of a
\* field value has to agree in both directions.
NodeInOrder(raw, both) ==
    /\ IsRegistered(raw.type)
    /\ LET type == TypeOf(raw.type)
       IN /\ \A i \in DOMAIN raw.props :
                 raw.props[i].name \in {"range", "loc"}
                     \/ Declares(AllInfos(type), raw.props[i].name)
          /\ \A i \in DOMAIN Required(type) : HasProp(raw, Required(type)[i].name)
          /\ \A i \in DOMAIN type.branches :
                 HasProp(raw, type.branches[i].name) =>
                     (type.branches[i].array <=> IsArray(GetProp(raw, type.branches[i].name)))
          /\ \A i \in DOMAIN type.fields :
                 HasProp(raw, type.fields[i].name) =>
                     /\ type.fields[i].array => IsArray(GetProp(raw, type.fields[i].name))
                     /\ both => (IsArray(GetProp(raw, type.fields[i].name))
                                    => type.fields[i].array)

RECURSIVE Conforms(_, _)
Conforms(raw, both) ==
    /\ NodeInOrder(raw, both)
    /\ \A c \in RawChildren(raw) : Conforms(c, both)

\* Every required single branch holds a raw node and every element of a
\* branch array is one, in the whole raw tree.
RECURSIVE NodesWhereRequired(_)
NodesWhereRequired(raw) ==
    /\ IsRegistered(raw.type) =>
           \A i \in DOMAIN TypeOf(raw.type).branches :
               LET br == TypeOf(raw.type).branches[i]
               IN HasProp(raw, br.name) =>
                     LET v == GetProp(raw, br.name)
                     IN /\ (~br.array /\ ~br.opt) => v.kind = "node"
                        /\ (br.array /\ IsArray(v)) =>
                               \A k \in DOMAIN v.elems : v.elems[k].kind = "node"
    /\ \A c \in RawChildren(raw) : NodesWhereRequired(c)

\* A raw node of the registered type Unknown is somewhere in the raw tree.
RECURSIVE HasUnknown(_)
HasUnknown(raw) ==
    raw.type = "Unknown" \/ \E c \in RawChildren(raw) : HasUnknown(c)

MustLifted == lift_mode = "must"

SloppyLifted == lift_mode = "sloppy"

\* C21 as the claim states it: lift_must returns a typed tree if and only
\* if in every node of the raw tree the type is registered, every property
\* is type, range, loc or a declared name, every required field and branch
\* is present and the array-ness of every field and branch value agrees
\* with its descriptor in both directions; otherwise it fails and returns
\* no node.
C21_AsStated ==
    MustLifted =>
        /\ lift_result.status = "ok" <=> Conforms(raw_obj, TRUE)
        /\ lift_result.status # "ok" => lift_result = LiftThrows

\* A tree is returned only for a raw tree that meets the conditions with
\* the array-ness of a field checked in the one direction, unless a raw
\* node of type Unknown is in it.
C21_OnlyInOrder ==
    (MustLifted /\ lift_result.status = "ok" /\ ~HasUnknown(raw_obj)) =>
        Conforms(raw_obj, FALSE)

\* A raw tree that meets the conditions and has raw nodes where a branch
\* needs one is lifted.
C21_InOrderLifts ==
    (MustLifted /\ Conforms(raw_obj, TRUE) /\ NodesWhereRequired(raw_obj)) =>
        lift_result.status = "ok"

\* The lift of an Identifier whose name is an array.
C21_ArrayFieldLifted ==
    /\ MustLifted
    /\ raw_obj = RawNode("Identifier", <<Prop("name", RawArr(<<RawPrim("a")>>))>>)
    /\ lift_result.status = "ok"

\* C22 as the claim states it: lift_sloppy substitutes the Unknown type
\* for any raw node without a schema entry and verifies nothing, so it
\* never fails, whether the offending node is the root or a nested child
\* of a node with a known type.
C22_AsStated ==
    SloppyLifted => lift_result.status = "ok"

\* The sloppy lift of a root whose type is registered is the strict lift,
\* and the one of a root whose type is not is an Unknown node without
\* fields and children.
C22_RootOnly ==
    SloppyLifted =>
        lift_result = IF IsRegistered(raw_obj.type) THEN mustLiftObj(raw_obj)
                      ELSE Lifted(BaseNode("Unknown", <<>>, <<>>))

\* The sloppy lift of a return whose argument has no schema entry.
C22_NestedThrows ==
    /\ SloppyLifted
    /\ raw_obj = RawNode("ReturnStatement",
                         <<Prop("argument", RawObj(RawNode("Bogus", <<>>)))>>)
    /\ lift_result = LiftThrows

====
